---- MODULE Spec2Model ----
(***************************************************************************)
(* Model of the osimager core: document composition (load_file, load_inc,  *)
(* load_data, load_specific), template substitution (do_sub, do_substr),   *)
(* version expansion (explode_string_with_dynamic_range), the spec index   *)
(* (spec_get_provides, make_index) and make_build.                         *)
(*                                                                         *)
(* A Python str is a sequence of one-character strings.  A JSON / Python   *)
(* value is a tagged record [t |-> tag, v |-> payload]:                    *)
(*   "str" chars, "num" integer, "bool" BOOLEAN, "list" sequence of        *)
(*   values, "map" function from chars to values, "null" (None),           *)
(*   "raise" an exception that propagates to the caller.                   *)
(***************************************************************************)
EXTENDS Integers, Sequences, FiniteSets, TLC

VARIABLES
    pc,        \* position of the running operation
    self,      \* the OSImager object: defs, evars, variables, lists, config, documents
    data_dir,  \* the documents on disk: platforms, locations, specs, index.json, and
               \* walk, the order a walk of specs/ finds the spec documents in
    world,     \* what the program reads from outside: os.environ, DNS answers,
               \* the vault's secrets, the salt crypt.mksalt draws
    arg,       \* the arguments of the operation being run
    ret        \* what the operation returned

vars == <<pc, self, data_dir, world, arg, ret>>

----------------------------------------------------------------------------
(* Characters and Python str operations *)

Digits == <<"0", "1", "2", "3", "4", "5", "6", "7", "8", "9">>

DigitChars == { Digits[i] : i \in 1..10 }

LowerChars == { "a", "b", "c", "d", "e", "f", "g", "h", "i", "j", "k", "l", "m",
                "n", "o", "p", "q", "r", "s", "t", "u", "v", "w", "x", "y", "z" }

UpperChars == { "A", "B", "C", "D", "E", "F", "G", "H", "I", "J", "K", "L", "M",
                "N", "O", "P", "Q", "R", "S", "T", "U", "V", "W", "X", "Y", "Z" }

LowerSeq == <<"a", "b", "c", "d", "e", "f", "g", "h", "i", "j", "k", "l", "m",
              "n", "o", "p", "q", "r", "s", "t", "u", "v", "w", "x", "y", "z">>

UpperSeq == <<"A", "B", "C", "D", "E", "F", "G", "H", "I", "J", "K", "L", "M",
              "N", "O", "P", "Q", "R", "S", "T", "U", "V", "W", "X", "Y", "Z">>

\* str.isalnum() of one character
IsAlnum(c) == c \in DigitChars \cup LowerChars \cup UpperChars

\* str.lower() of one character (re.IGNORECASE folds case the same way)
LowerChar(c) ==
    IF c \in UpperChars
    THEN LowerSeq[CHOOSE i \in 1..26 : UpperSeq[i] = c]
    ELSE c

\* s.lower()
Lowered(s) == [i \in 1..Len(s) |-> LowerChar(s[i])]

\* the characters str.strip() removes
WhiteChars == { " ", "\n", "\t" }

\* s[i:] with a 1-based first index
Drop(s, i) == SubSeq(s, i, Len(s))

\* s.startswith(p) at 1-based position i
MatchAt(s, p, i) ==
    /\ i >= 1
    /\ i + Len(p) - 1 <= Len(s)
    /\ \A k \in 1..Len(p) : s[i + k - 1] = p[k]

\* s.find(p, i): least position >= i where p occurs, 0 when there is none
Find(s, p, i) ==
    LET hits == { j \in i..(Len(s) - Len(p) + 1) : MatchAt(s, p, j) }
    IN  IF hits = {} THEN 0 ELSE CHOOSE j \in hits : \A h \in hits : j <= h

\* p in s
Contains(s, p) == Find(s, p, 1) # 0

StartsWith(s, p) == MatchAt(s, p, 1)

EndsWith(s, p) == MatchAt(s, p, Len(s) - Len(p) + 1)

\* s.strip(chars)
RECURSIVE LStrip(_, _)
LStrip(s, chars) ==
    IF s # <<>> /\ Head(s) \in chars THEN LStrip(Tail(s), chars) ELSE s

RECURSIVE RStrip(_, _)
RStrip(s, chars) ==
    IF s # <<>> /\ s[Len(s)] \in chars THEN RStrip(SubSeq(s, 1, Len(s) - 1), chars) ELSE s

StripChars(s, chars) == RStrip(LStrip(s, chars), chars)

\* s.strip()
Strip(s) == StripChars(s, WhiteChars)

\* s.replace(old, new), old non-empty: every non-overlapping occurrence, left to right
RECURSIVE Replace(_, _, _)
ReplaceFrom(s, old, new, j) ==
    IF old = <<>> \/ j = 0
    THEN s
    ELSE SubSeq(s, 1, j - 1) \o new \o Replace(Drop(s, j + Len(old)), old, new)

Replace(s, old, new) == ReplaceFrom(s, old, new, Find(s, old, 1))

\* s.splitlines()
RECURSIVE SplitLines(_)
SplitLines(s) ==
    LET j == Find(s, <<"\n">>, 1)
    IN  IF s = <<>> THEN <<>>
        ELSE IF j = 0 THEN <<s>>
        ELSE <<SubSeq(s, 1, j - 1)>> \o SplitLines(Drop(s, j + 1))

\* s.split(sep), sep one character
RECURSIVE Split(_, _)
Split(s, sep) ==
    LET j == Find(s, <<sep>>, 1)
    IN  IF j = 0 THEN <<s>>
        ELSE <<SubSeq(s, 1, j - 1)>> \o Split(Drop(s, j + 1), sep)

\* sep.join(parts)
RECURSIVE Join(_, _)
Join(parts, sep) ==
    IF parts = <<>> THEN <<>>
    ELSE IF Len(parts) = 1 THEN parts[1]
    ELSE parts[1] \o sep \o Join(Tail(parts), sep)

\* the concatenation of a sequence of sequences
Flatten(seqs) == Join(seqs, <<>>)

\* str(n) for an integer
RECURSIVE NatStr(_)
NatStr(n) ==
    IF n < 10 THEN <<Digits[n + 1]>> ELSE NatStr(n \div 10) \o <<Digits[(n % 10) + 1]>>

IntStr(n) == IF n < 0 THEN <<"-">> \o NatStr(0 - n) ELSE NatStr(n)

IsDigits(s) == s # <<>> /\ \A i \in 1..Len(s) : s[i] \in DigitChars

DigitVal(c) == (CHOOSE i \in 1..10 : Digits[i] = c) - 1

\* int(s) for a string of decimal digits
RECURSIVE ParseNat(_)
ParseNat(s) ==
    IF s = <<>> THEN 0
    ELSE 10 * ParseNat(SubSeq(s, 1, Len(s) - 1)) + DigitVal(s[Len(s)])

\* s.zfill(width)
RECURSIVE ZFill(_, _)
ZFill(s, width) == IF Len(s) >= width THEN s ELSE ZFill(<<"0">> \o s, width)

\* the elements of a finite set of sequences or strings as a sequence, in a fixed order
RECURSIVE SetToSeq(_)
SetToSeq(S) ==
    IF S = {} THEN <<>>
    ELSE LET x == CHOOSE y \in S : TRUE IN <<x>> \o SetToSeq(S \ {x})

----------------------------------------------------------------------------
(* Values *)

Str(s) == [t |-> "str", v |-> s]

Num(n) == [t |-> "num", v |-> n]

Bool(b) == [t |-> "bool", v |-> b]

List(l) == [t |-> "list", v |-> l]

Map(m) == [t |-> "map", v |-> m]

\* None
Null == [t |-> "null", v |-> 0]

\* an exception (or sys.exit) leaving the running function
Raise(kind) == [t |-> "raise", v |-> kind]

IsStr(x) == x.t = "str"

IsList(x) == x.t = "list"

IsMap(x) == x.t = "map"

IsRaise(x) == x.t = "raise"

\* the empty dict {}
EmptyMap == <<>>

\* Python truthiness: `if x:` / `not x`
Truthy(x) ==
    CASE x.t = "str" -> x.v # <<>>
      [] x.t = "num" -> x.v # 0
      [] x.t = "bool" -> x.v
      [] x.t = "list" -> x.v # <<>>
      [] x.t = "map" -> DOMAIN x.v # {}
      [] OTHER -> FALSE

\* d.get(key, default) on a dict payload
Get(d, key, default) == IF key \in DOMAIN d THEN d[key] ELSE default

\* d.pop(key, ...): the dict without key
Pop(d, key) == [k \in DOMAIN d \ {key} |-> d[k]]

\* d.update(e): e's entries win
Update(d, e) == e @@ d

\* d[key] = val
Put(d, key, val) == (key :> val) @@ d

\* repr(x) / str(x) of a value; a dict is shown in a fixed key order
\* repr() of a str: quoted with ' unless the text holds a ' and no ", the quote,
\* the backslash and the control characters escaped
ReprQuote(s) == IF Contains(s, <<"'">>) /\ ~Contains(s, <<"\"">>) THEN "\"" ELSE "'"

ReprChar(c, q) ==
    CASE c = "\n" -> <<"\\", "n">>
      [] c = "\t" -> <<"\\", "t">>
      [] c = "\\" -> <<"\\", "\\">>
      [] c = q -> <<"\\", q>>
      [] OTHER -> <<c>>

ReprStr(s, q) == <<q>> \o Flatten([i \in 1..Len(s) |-> ReprChar(s[i], q)]) \o <<q>>

RECURSIVE PyRepr(_)
PyRepr(x) ==
    CASE x.t = "str" -> ReprStr(x.v, ReprQuote(x.v))
      [] x.t = "num" -> IntStr(x.v)
      [] x.t = "bool" -> IF x.v THEN <<"T", "r", "u", "e">> ELSE <<"F", "a", "l", "s", "e">>
      [] x.t = "null" -> <<"N", "o", "n", "e">>
      [] x.t = "list" ->
            <<"[">> \o Join([i \in 1..Len(x.v) |-> PyRepr(x.v[i])], <<",", " ">>) \o <<"]">>
      [] x.t = "map" ->
            LET ks == SetToSeq(DOMAIN x.v)
            IN  <<"{">>
                \o Join([i \in 1..Len(ks) |->
                            PyRepr(Str(ks[i])) \o <<":", " ">> \o PyRepr(x.v[ks[i]])],
                        <<",", " ">>)
                \o <<"}">>
      [] OTHER -> <<>>

\* str(x)
PyStr(x) == IF x.t = "str" THEN x.v ELSE PyRepr(x)

----------------------------------------------------------------------------
(* Template substitution: src/lib/osimager/utils.py *)

\* extract_all on one line: re.findall(escape(start) + '(.*?)' + escape(end), line)
RECURSIVE FindAllLine(_, _, _, _)
FindAllLine(line, start, end, from) ==
    LET i == Find(line, start, from)
        j == IF i = 0 THEN 0 ELSE Find(line, end, i + Len(start))
    IN  IF i = 0 \/ j = 0
        THEN <<>>
        ELSE <<SubSeq(line, i + Len(start), j - 1)>>
             \o FindAllLine(line, start, end, j + Len(end))

extract_all(text, start_pat, end_pat) ==
    LET lines == SplitLines(text)
    IN  Flatten([i \in 1..Len(lines) |-> FindAllLine(lines[i], start_pat, end_pat, 1)])

isvarname(word) ==
    /\ word # <<>>
    /\ \A i \in 1..Len(word) : IsAlnum(word[i]) \/ word[i] \in {"_", "/", ",", ":"}
    /\ \A i \in 1..Len(word) : word[i] # " "

\* os.path.basename(val)
basename(val) ==
    LET parts == Split(val, "/") IN parts[Len(parts)]

\* get_ip(name): the A record the resolver answers with, None when the lookup fails
get_ip(name) ==
    IF IsStr(name) /\ name.v \in DOMAIN world.dns THEN Str(world.dns[name.v]) ELSE Null

\* _get_vault / get_vault: the secret at mount/path[:subkey]; vault is None or a client
get_vault(vault, string) ==
    LET i == Find(string, <<":">>, 1)
        full_path == IF i = 0 THEN string ELSE SubSeq(string, 1, i - 1)
        subkey == IF i = 0 THEN <<>> ELSE Drop(string, i + 1)
    IN  IF vault = Null THEN Str(<<>>)
        ELSE IF ~Contains(full_path, <<"/">>) THEN Str(<<>>)
        ELSE IF full_path \notin DOMAIN world.secrets THEN Str(<<>>)
        ELSE IF subkey # <<>>
             THEN Get(world.secrets[full_path], subkey, Null)
             ELSE Str(PyRepr(Map(world.secrets[full_path])))

\* get_env(varname)
get_env(varname) == Str(Get(world.environ, varname, <<>>))

\* hash_password(password, method): crypt.crypt(password, crypt.mksalt(method)).  The
\* digest is kept symbolic: the method's prefix, the salt drawn, the hashed text.
hash_password(password, method) ==
    IF ~IsStr(password) THEN Raise("TypeError")
    ELSE Str(<<"$", method, "$">> \o world.salt \o <<"$", "(">> \o password.v \o <<")">>)

\* re.split('(\+|\-|\*|/)', expr): operands at the odd places, operators at the even ones
RECURSIVE SplitOps(_)
SplitOps(expr) ==
    LET hits == { j \in 1..Len(expr) : expr[j] \in {"+", "-", "*", "/"} }
        j == CHOOSE h \in hits : \A g \in hits : h <= g
    IN  IF hits = {} THEN <<expr>>
        ELSE <<SubSeq(expr, 1, j - 1), <<expr[j]>>>> \o SplitOps(Drop(expr, j + 1))

\* a decimal integer literal as Python's eval reads it (no leading zero)
IsIntLiteral(s) == IsDigits(s) /\ (Len(s) = 1 \/ s[1] # "0")

\* a rational n/d, d > 0, as the pair <<n, d>>
RatMul(a, b) == <<a[1] * b[1], a[2] * b[2]>>

RatDiv(a, b) ==
    IF b[1] > 0 THEN <<a[1] * b[2], a[2] * b[1]>> ELSE <<0 - (a[1] * b[2]), a[2] * (0 - b[1])>>

RatAdd(a, b) == <<a[1] * b[2] + b[1] * a[2], a[2] * b[2]>>

RatNeg(a) == <<0 - a[1], a[2]>>

\* int(x): truncation toward zero
RatInt(a) == IF a[1] >= 0 THEN a[1] \div a[2] ELSE 0 - ((0 - a[1]) \div a[2])

\* The operands of an arithmetic expression text with their unary signs folded in:
\* [ok, nums (rationals), ops]; ok is FALSE when the text is not such an expression.
RECURSIVE ArithTokens(_, _, _)
ArithTokens(parts, i, neg) ==
    LET tok == Strip(parts[i])
        rest == ArithTokens(parts, i + 2, FALSE)
        val == <<ParseNat(tok), 1>>
    IN  IF tok = <<>>
        THEN \* a unary + or - in front of the next operand
             IF i + 2 <= Len(parts) /\ parts[i + 1] \in {<<"+">>, <<"-">>}
             THEN ArithTokens(parts, i + 2, IF parts[i + 1] = <<"-">> THEN ~neg ELSE neg)
             ELSE [ok |-> FALSE, nums |-> <<>>, ops |-> <<>>]
        ELSE IF ~IsIntLiteral(tok)
        THEN [ok |-> FALSE, nums |-> <<>>, ops |-> <<>>]
        ELSE IF i = Len(parts)
        THEN [ok |-> TRUE, nums |-> <<IF neg THEN RatNeg(val) ELSE val>>, ops |-> <<>>]
        ELSE [ok |-> rest.ok,
              nums |-> <<IF neg THEN RatNeg(val) ELSE val>> \o rest.nums,
              ops |-> <<parts[i + 1][1]>> \o rest.ops]

\* * and / bind tighter and associate to the left: fold them into the terms of a sum.
\* [ok, terms, signs, error]; ok is FALSE on a division by zero, and error is then the
\* text of the ZeroDivisionError: a quotient is a float, and dividing a float by zero
\* is reported as a float division
RECURSIVE ArithTerms(_, _, _, _, _)
ArithTerms(nums, ops, i, acc, float) ==
    IF i > Len(ops)
    THEN [ok |-> TRUE, terms |-> <<acc>>, signs |-> <<>>, error |-> <<>>]
    ELSE IF ops[i] = "*" THEN ArithTerms(nums, ops, i + 1, RatMul(acc, nums[i + 1]), float)
    ELSE IF ops[i] = "/"
    THEN IF nums[i + 1][1] = 0
         THEN [ok |-> FALSE, terms |-> <<>>, signs |-> <<>>,
               error |-> (IF float THEN <<"f", "l", "o", "a", "t", " ">> ELSE <<>>)
                         \o <<"d", "i", "v", "i", "s", "i", "o", "n", " ", "b", "y", " ",
                              "z", "e", "r", "o">>]
         ELSE ArithTerms(nums, ops, i + 1, RatDiv(acc, nums[i + 1]), TRUE)
    ELSE LET rest == ArithTerms(nums, ops, i + 1, nums[i + 1], FALSE)
         IN  [ok |-> rest.ok, terms |-> <<acc>> \o rest.terms,
              signs |-> <<ops[i]>> \o rest.signs, error |-> rest.error]

RECURSIVE ArithSum(_, _, _, _)
ArithSum(terms, signs, i, acc) ==
    IF i > Len(signs) THEN acc
    ELSE ArithSum(terms, signs, i + 1,
                  RatAdd(acc, IF signs[i] = "-" THEN RatNeg(terms[i + 1]) ELSE terms[i + 1]))

\* int(eval(new_expr)) for integer arithmetic, the quotients taken exactly;
\* on an exception the f"<eval-error:{e}>" text the except branch returns
EvalError(e) == Str(<<"<", "e", "v", "a", "l", "-", "e", "r", "r", "o", "r", ":">> \o e \o <<">">>)

EvalTerms(terms) ==
    IF ~terms.ok
    THEN EvalError(terms.error)
    ELSE Num(RatInt(ArithSum(terms.terms, terms.signs, 1, terms.terms[1])))

EvalTokens(toks) ==
    IF ~toks.ok
    THEN EvalError(<<"i", "n", "v", "a", "l", "i", "d">>)
    ELSE EvalTerms(ArithTerms(toks.nums, toks.ops, 1, toks.nums[1], FALSE))

eval_arith(new_expr) == EvalTokens(ArithTokens(SplitOps(new_expr), 1, FALSE))

\* eval_expression: every operand is looked up in defs; a missing or falsy one gives ""
EvalParts(parts, defs) ==
    IF \E i \in 1..Len(parts) : i % 2 = 1 /\ ~Truthy(Get(defs, parts[i], Null))
    THEN Str(<<>>)
    ELSE eval_arith(Flatten([i \in 1..Len(parts) |->
                        IF i % 2 = 1 THEN PyStr(defs[parts[i]]) ELSE parts[i]]))

eval_expression(expr, defs) == EvalParts(SplitOps(expr), defs)

\* A literal of the expression language eval() is given: a quoted string, an integer,
\* True, False or None.  [ok, val]
eval_atom(text) ==
    LET s == Strip(text)
        quoted(q) == /\ Len(s) >= 2 /\ s[1] = q /\ s[Len(s)] = q
                     /\ \A i \in 2..(Len(s) - 1) : s[i] \notin {q, "\\"}
    IN  IF quoted("'") \/ quoted("\"") THEN [ok |-> TRUE, val |-> Str(SubSeq(s, 2, Len(s) - 1))]
        ELSE IF IsIntLiteral(s) THEN [ok |-> TRUE, val |-> Num(ParseNat(s))]
        ELSE IF s = <<"T", "r", "u", "e">> THEN [ok |-> TRUE, val |-> Bool(TRUE)]
        ELSE IF s = <<"F", "a", "l", "s", "e">> THEN [ok |-> TRUE, val |-> Bool(FALSE)]
        ELSE IF s = <<"N", "o", "n", "e">> THEN [ok |-> TRUE, val |-> Null]
        ELSE [ok |-> FALSE, val |-> Null]

\* a condition: a literal, or two literals compared with == or !=
eval_cond(text) ==
    LET eq == Find(text, <<"=", "=">>, 1)
        ne == Find(text, <<"!", "=">>, 1)
        k == IF eq # 0 THEN eq ELSE ne
        lhs == eval_atom(SubSeq(text, 1, k - 1))
        rhs == eval_atom(Drop(text, k + 2))
        same == lhs.val.t = rhs.val.t /\ lhs.val.v = rhs.val.v
    IN  IF k = 0 THEN eval_atom(text)
        ELSE [ok |-> lhs.ok /\ rhs.ok, val |-> Bool(IF eq # 0 THEN same ELSE ~same)]

\* eval(processed_token) for the forms the documents use: a literal, a comparison, or
\* "X if C else Y".  Any other text is outside this model and is answered by an exception.
py_eval(text) ==
    LET i == Find(text, <<" ", "i", "f", " ">>, 1)
        e == IF i = 0 THEN 0 ELSE Find(text, <<" ", "e", "l", "s", "e", " ">>, i + 4)
        x == eval_atom(SubSeq(text, 1, i - 1))
        c == eval_cond(SubSeq(text, i + 4, e - 1))
        y == eval_atom(Drop(text, e + 6))
        plain == eval_cond(text)
    IN  IF i # 0 /\ e # 0
        THEN IF x.ok /\ c.ok /\ y.ok
             THEN (IF Truthy(c.val) THEN x.val ELSE y.val)
             ELSE Raise("eval")
        ELSE IF plain.ok THEN plain.val ELSE Raise("eval")

\* eval_expression_safe: >>name<< inside the token is replaced by str(defs[name]) or by
\* <MISSING:name>, then the text is evaluated
RECURSIVE SubstMissing(_, _, _, _)
SubstMissing(text, matches, i, defs) ==
    IF i > Len(matches) THEN text
    ELSE LET m == matches[i]
             value == IF m \in DOMAIN defs
                      THEN PyStr(defs[m])
                      ELSE <<"<", "M", "I", "S", "S", "I", "N", "G", ":">> \o m \o <<">">>
         IN  SubstMissing(Replace(text, <<">", ">">> \o m \o <<"<", "<">>, value),
                          matches, i + 1, defs)

eval_expression_safe(token, imager) ==
    py_eval(SubstMissing(token, FindAllLine(token, <<">", ">">>, <<"<", "<">>, 1), 1,
                         imager.defs))

\* value.replace(',', ' ').split(): the maximal runs of non-blank characters
RECURSIVE SplitBlank(_)
SplitBlank(s) ==
    LET t == LStrip(s, WhiteChars \cup {","})
        ends == { j \in 1..Len(t) : t[j] \in WhiteChars \cup {","} }
        j == CHOOSE h \in ends : \A g \in ends : h <= g
    IN  IF t = <<>> THEN <<>>
        ELSE IF ends = {} THEN <<t>>
        ELSE <<SubSeq(t, 1, j - 1)>> \o SplitBlank(Drop(t, j + 1))

insert_list_items(token, imager) ==
    LET value == imager.defs[token]
        words == SplitBlank(value.v)
    IN  IF token \notin DOMAIN imager.defs THEN List(<<>>)
        ELSE IF IsList(value) THEN value
        ELSE IF IsStr(value) THEN List([i \in 1..Len(words) |-> Str(words[i])])
        ELSE List(<<Str(PyStr(value))>>)

get_default(defs, key, action, vault) ==
    LET val == Get(defs, key, Str(<<>>))
    IN  CASE action \in {1, 2} -> val
          [] action = 3 -> IF IsStr(val) THEN Str(basename(val.v)) ELSE Raise("TypeError")
          [] action = 4 -> get_ip(val)
          [] action = 5 -> IF vault # Null THEN get_vault(vault, key) ELSE Str(<<>>)
          [] action = 7 -> get_env(key)
          [] OTHER -> Str(<<>>)

ACTION_HANDLERS(action, token, imager) ==
    CASE action \in {1, 2, 3, 4} -> get_default(imager.defs, token, action, Null)
      [] action = 5 -> get_default(imager.defs, token, 5, imager.vault)
      [] action = 6 -> eval_expression(token, imager.defs)
      [] action = 7 -> get_env(token)
      [] action = 8 -> hash_password(get_vault(imager.vault, token), "1")
      [] action = 9 -> hash_password(get_vault(imager.vault, token), "5")
      [] action = 10 -> hash_password(get_vault(imager.vault, token), "6")
      [] action = 11 -> eval_expression_safe(token, imager)
      [] action = 12 -> insert_list_items(token, imager)

\* the families in another order: the environment (7) ahead of defs (2)
ACTIONS_EnvFirst ==
    << <<1, <<"%", ">">>, <<"<", "%">>>>,
       <<7, <<"$", ">">>, <<"<", "$">>>>,
       <<2, <<">", ">">>, <<"<", "<">>>>,
       <<3, <<"+", ">">>, <<"<", "+">>>>,
       <<4, <<"*", ">">>, <<"<", "*">>>>,
       <<5, <<"|", ">">>, <<"<", "|">>>>,
       <<6, <<"#", ">">>, <<"<", "#">>>>,
       <<8, <<"1", ">">>, <<"<", "1">>>>,
       <<9, <<"5", ">">>, <<"<", "5">>>>,
       <<10, <<"6", ">">>, <<"<", "6">>>>,
       <<11, <<"E", ">">>, <<"<", "E">>>>,
       <<12, <<"[", ">">>, <<"<", "]">>>> >>

\* ACTIONS: the marker families with their start and end delimiters, in the order applied
ACTIONS_ ==
    << <<1, <<"%", ">">>, <<"<", "%">>>>,
       <<2, <<">", ">">>, <<"<", "<">>>>,
       <<3, <<"+", ">">>, <<"<", "+">>>>,
       <<4, <<"*", ">">>, <<"<", "*">>>>,
       <<5, <<"|", ">">>, <<"<", "|">>>>,
       <<6, <<"#", ">">>, <<"<", "#">>>>,
       <<7, <<"$", ">">>, <<"<", "$">>>>,
       <<8, <<"1", ">">>, <<"<", "1">>>>,
       <<9, <<"5", ">">>, <<"<", "5">>>>,
       <<10, <<"6", ">">>, <<"<", "6">>>>,
       <<11, <<"E", ">">>, <<"<", "E">>>>,
       <<12, <<"[", ">">>, <<"<", "]">>>> >>

\* The `for tok in tokens` loop of do_substr for family ACTIONS[a], at token i.
\* [done, val]: done when the function returned inside the loop (val is what it
\* returned), else val is the text after the loop.
RECURSIVE SubstTokens(_, _, _, _, _)
SubstRepl(imager, a, tokens, i, result, handled) ==
    LET repl == IF handled = Null THEN Str(<<>>) ELSE handled
        full == ACTIONS_[a][2] \o tokens[i] \o ACTIONS_[a][3]
    IN  IF IsRaise(handled) THEN [done |-> TRUE, val |-> handled]
        ELSE IF handled.t = "bool" /\ handled.v = FALSE
        THEN SubstTokens(imager, a, tokens, i + 1, result)
        ELSE IF Strip(result) = full THEN [done |-> TRUE, val |-> repl]
        ELSE SubstTokens(imager, a, tokens, i + 1, Replace(result, full, PyStr(repl)))

SubstKey(imager, a, tokens, i, result, key) ==
    IF ACTIONS_[a][1] \notin {6, 11} /\ ~isvarname(key)
    THEN SubstTokens(imager, a, tokens, i + 1, result)
    ELSE SubstRepl(imager, a, tokens, i, result, ACTION_HANDLERS(ACTIONS_[a][1], key, imager))

SubstTokens(imager, a, tokens, i, result) ==
    IF i > Len(tokens) THEN [done |-> FALSE, val |-> result]
    ELSE SubstKey(imager, a, tokens, i, result,
                  IF ACTIONS_[a][1] \in {2, 11}
                  THEN tokens[i]
                  ELSE StripChars(tokens[i], {"\"", "'"}))

\* The `for action, (start, end) in ACTIONS` loop of do_substr, from family a on
RECURSIVE SubstActions(_, _, _)
SubstStep(imager, a, step) ==
    IF step.done THEN step.val ELSE SubstActions(imager, a + 1, step.val)

SubstActions(imager, a, result) ==
    IF a > Len(ACTIONS_) THEN Str(result)
    ELSE SubstStep(imager, a,
                   SubstTokens(imager, a, extract_all(result, ACTIONS_[a][2], ACTIONS_[a][3]),
                               1, result))

do_substr(text, imager) ==
    IF ~Contains(text, <<">">>) /\ ~Contains(text, <<"+">>)
    THEN Str(text)
    ELSE SubstActions(imager, 1, text)

\* the first exception among the values of a sequence, Null when there is none
FirstRaise(seq) ==
    IF \E i \in 1..Len(seq) : IsRaise(seq[i])
    THEN seq[CHOOSE i \in 1..Len(seq) : IsRaise(seq[i]) /\ \A j \in 1..(i - 1) : ~IsRaise(seq[j])]
    ELSE Null

\* a list element that do_sub takes for a pure list expansion
IsListToken(elem) ==
    /\ IsStr(elem)
    /\ Contains(elem.v, <<"[", ">">>) /\ Contains(elem.v, <<"<", "]">>)
    /\ StartsWith(Strip(elem.v), <<"[", ">">>) /\ EndsWith(Strip(elem.v), <<"<", "]">>)

\* elem.strip()[2:-2]
ListToken(elem) == SubSeq(Strip(elem.v), 3, Len(Strip(elem.v)) - 2)

\* the dict comprehension of do_sub, from the resolved keys and values.  A key that
\* resolves to a list or a dict is unhashable; of the items that resolve to one key,
\* one is kept.  The keys of a Map are texts: a key that resolves to a number or a
\* boolean is held as its str().
SubDict(newk, newv) ==
    IF FirstRaise(newk) # Null THEN FirstRaise(newk)
    ELSE IF FirstRaise(newv) # Null THEN FirstRaise(newv)
    ELSE IF \E i \in 1..Len(newk) : newk[i].t \in {"list", "map"} THEN Raise("TypeError")
    ELSE Map([k \in { PyStr(newk[i]) : i \in 1..Len(newk) } |->
                newv[CHOOSE i \in 1..Len(newk) : PyStr(newk[i]) = k]])

\* the list branch of do_sub, from what each element contributes
SubList(pieces) ==
    IF \E i \in 1..Len(pieces) : FirstRaise(pieces[i]) # Null
    THEN FirstRaise(Flatten(pieces))
    ELSE List(Flatten(pieces))

RECURSIVE do_sub(_, _)
SubItems_(keys, item, inst) ==
    SubDict([i \in 1..Len(keys) |-> do_sub(Str(keys[i]), inst)],
            [i \in 1..Len(keys) |-> do_sub(item.v[keys[i]], inst)])

do_sub(item, inst) ==
    CASE IsMap(item) -> SubItems_(SetToSeq(DOMAIN item.v), item, inst)
      [] IsList(item) ->
            SubList([i \in 1..Len(item.v) |->
                IF IsListToken(item.v[i]) /\ ListToken(item.v[i]) \in DOMAIN inst.defs
                   /\ IsList(inst.defs[ListToken(item.v[i])])
                THEN inst.defs[ListToken(item.v[i])].v
                ELSE IF IsListToken(item.v[i]) /\ ListToken(item.v[i]) \notin DOMAIN inst.defs
                THEN <<>>
                ELSE <<do_sub(item.v[i], inst)>>])
      [] IsStr(item) -> do_substr(item.v, inst)
      [] OTHER -> item

----------------------------------------------------------------------------
(* The OSImager object: src/lib/osimager/core.py *)

\* init_vars: the attributes of a new OSImager
init_vars ==
    [ vault |-> Null,
      platform |-> Map(EmptyMap),
      location |-> Map(EmptyMap),
      spec |-> Map(EmptyMap),
      defs |-> EmptyMap,
      evars |-> EmptyMap,
      variables |-> EmptyMap,
      pre_provisioners |-> <<>>,
      provisioners |-> <<>>,
      post_provisioners |-> <<>>,
      config |-> EmptyMap,
      files |-> <<>>,
      fqdn |-> <<>> ]

\* the data directory: the documents of platforms/, locations/ and specs/ by name and
\* specs/index.json (Null when there is no such file); here nothing on disk
NoData ==
    [platforms |-> EmptyMap, locations |-> EmptyMap, specs |-> EmptyMap, index |-> Null,
     walk |-> <<>>]

\* what is outside the program: the environment variables, the A records the resolver
\* answers with, the secrets of the vault, the salt crypt draws, the text of .vaultconfig
\* (Null when there is no such file), whether the vault authenticates its clients
\* ("yes", "no", or "error" when asking fails), the URLs that answer, with the text
\* they answer with, and the files the program reads and writes outside the documents
NoWorld ==
    [environ |-> EmptyMap, dns |-> EmptyMap, secrets |-> EmptyMap, salt |-> <<"s">>,
     vaultconfig |-> Null, authenticated |-> "no", urls |-> EmptyMap, fs |-> EmptyMap]

----------------------------------------------------------------------------
(* Resolving a value twice: do_sub(item, inst), then do_sub of what it returned *)

\* the longest text drawn, in pieces
MaxPieces == 2

\* the pieces the texts to resolve are made of: markers, literals, blanks, bare delimiters
Pieces ==
    { <<"%", ">", "k", "<", "%">>, <<">", ">", "k", "<", "<">>, <<"$", ">", "e", "<", "$">>,
      <<"[", ">", "l", "<", "]">>, <<"[", ">", "z", "<", "]">>, <<">", ">", "j", "<", "<">>,
      <<"x">>, <<" ">>, <<"\n">>, <<"[", ">">>, <<"<", "]">> }

RECURSIVE TextsOf(_)
TextsOf(n) ==
    IF n = 0 THEN {<<>>}
    ELSE TextsOf(n - 1) \cup { t \o p : t \in TextsOf(n - 1), p \in Pieces }

\* the values handed to do_sub: a text, a list holding one text, the list
\* ["a", text, "b"], a dict with one text as key or as value
SubItems ==
    { Str(t) : t \in TextsOf(MaxPieces) }
    \cup { List(<<Str(t)>>) : t \in TextsOf(MaxPieces) }
    \cup { List(<<Str(<<"a">>), Str(t), Str(<<"b">>)>>) : t \in TextsOf(1) }
    \cup { Map(<<"c">> :> Str(t)) : t \in TextsOf(1) }
    \cup { Map(t :> Num(1)) : t \in TextsOf(1) }

\* the context's defs: k of every kind of value, l a list, a string or absent, j a
\* literal, z never defined
SubDefs ==
    LET base == (<<"k">> :> Str(<<"v">>)) @@ (<<"j">> :> Str(<<"w">>))
        kvals == { Str(<<"v">>), Num(3), Num(0), Bool(TRUE), Bool(FALSE), Null,
                   List(<<Str(<<"p">>), Str(<<"q">>), Str(<<"r">>)>>), List(<<>>),
                   Map(<<"a">> :> Str(<<"b">>)), Str(<<>>),
                   Str(<<"$", ">", "e", "<", "$">>), Str(<<"%", ">", "j", "<", "%">>),
                   Str(<<"[", ">">>) }
        lvals == { List(<<Str(<<"x">>), Str(<<"y">>)>>), List(<<>>),
                   Str(<<"p", " ", "q">>), List(<<Str(<<"[", ">", "\n", "<", "]">>)>>) }
    IN  { Put(base, <<"k">>, kv) : kv \in kvals }
        \cup { Put(base, <<"l">>, lv) : lv \in lvals }

\* os.environ: e set to a literal, to a text holding a marker of an earlier family,
\* or unset
SubEnvirons ==
    { <<"e">> :> <<"u">>, <<"e">> :> <<">", ">", "j", "<", "<">>, EmptyMap }

\* the contexts: every defs above with e a literal, and the first of them with the
\* other environments
SubContexts ==
    { [defs |-> d, environ |-> <<"e">> :> <<"u">>, dns |-> EmptyMap] : d \in SubDefs }
    \cup { [defs |-> (<<"k">> :> Str(<<"v">>)) @@ (<<"j">> :> Str(<<"w">>)), environ |-> env,
            dns |-> EmptyMap] : env \in SubEnvirons }

\* A marker of family n: its delimiters around the name j, for family 11 around the
\* expression 'w'
OrderToken(n) == IF n = 11 THEN <<"'", "w", "'">> ELSE <<"j">>

\* the delimiters of family n, whatever place it has in ACTIONS
FamilyOpen(n) == ACTIONS_[CHOOSE a \in 1..Len(ACTIONS_) : ACTIONS_[a][1] = n][2]

FamilyClose(n) == ACTIONS_[CHOOSE a \in 1..Len(ACTIONS_) : ACTIONS_[a][1] = n][3]

OrderMark(n) == FamilyOpen(n) \o OrderToken(n) \o FamilyClose(n)

\* the families whose value comes from the context as it is: defs (1, 2, 3),
\* the environment (7), a list of defs (12)
Producers == {1, 2, 3, 7, 12}

\* the value family n finds under k when that value holds a marker of family m
OrderVal(n, m) == IF n = 12 THEN List(<<Str(OrderMark(m))>>) ELSE Str(OrderMark(m))

\* the texts "x" + marker of family n for k, in a context where k stands for a marker
\* of family m for j: in defs, in the environment, as the one item of a list of defs
OrderCases ==
    { [item |-> Str(<<"x">> \o FamilyOpen(n) \o <<"k">> \o FamilyClose(n)),
       defs |-> IF n = 7 THEN <<"j">> :> Str(<<"7">>)
                ELSE (<<"j">> :> Str(<<"7">>)) @@ (<<"k">> :> OrderVal(n, m)),
       environ |-> IF n = 7 THEN (<<"k">> :> OrderMark(m)) @@ (<<"j">> :> <<"u">>)
                   ELSE <<"j">> :> <<"u">>,
       dns |-> <<"7">> :> <<"1", "0", ".", "0", ".", "0", ".", "7">>] :
      n \in Producers, m \in 1..Len(ACTIONS_) }

\* the longest arithmetic expression drawn, in operands
MaxOperands == 3

\* the operands of the arithmetic expressions drawn: a and b stand for integers, n for
\* the text "0", 3 is a literal
ArithOperands == {<<"a">>, <<"b">>, <<"n">>, <<"3">>}

\* defs for them; o stands for the integer 0 and z is never defined
ArithDefs ==
    (<<"a">> :> Num(6)) @@ (<<"b">> :> Num(4)) @@ (<<"n">> :> Str(<<"0">>))
    @@ (<<"o">> :> Num(0)) @@ (<<"k">> :> Str(<<"v">>))

RECURSIVE ArithExprs(_)
ArithExprs(n) ==
    IF n = 1 THEN ArithOperands
    ELSE ArithExprs(n - 1)
         \cup { e \o <<op>> \o x : e \in ArithExprs(n - 1), op \in {"+", "*", "/"},
                                   x \in ArithOperands }

ArithMark(expr) == <<"#", ">">> \o expr \o <<"<", "#">>

\* the markers that may fail to resolve: an arithmetic expression, a list of defs that
\* is not defined, the address of a name that no server knows or that is not defined
FailMarks ==
    { ArithMark(<<"o">>), ArithMark(<<"z">>), ArithMark(<<"a", "+", "o">>),
      ArithMark(<<"o", "*", "b">>), ArithMark(<<"z", "+", "a">>), ArithMark(<<"a", "/", "n">>),
      ArithMark(<<"a", "-", "a", "/", "b">>), ArithMark(<<"b", "-", "a">>),
      <<"[", ">", "z", "<", "]">>, <<"*", ">", "k", "<", "*">>, <<"*", ">", "z", "<", "*">> }

\* every expression alone, and the markers above alone and after the literal x
FailCases ==
    { [item |-> Str(m), defs |-> ArithDefs, environ |-> EmptyMap,
       dns |-> <<"w">> :> <<"1", "0", ".", "0", ".", "0", ".", "7">>] :
      m \in { ArithMark(e) : e \in ArithExprs(MaxOperands) }
             \cup FailMarks \cup { <<"x">> \o f : f \in FailMarks } }

SubCases ==
    { [item |-> i, defs |-> c.defs, environ |-> c.environ, dns |-> c.dns] :
        i \in SubItems, c \in SubContexts }
    \cup OrderCases
    \cup FailCases

SubInit ==
    /\ pc = "do_sub"
    /\ \E c \in SubCases :
          /\ self = [init_vars EXCEPT !.defs = c.defs]
          /\ world = [NoWorld EXCEPT !.environ = c.environ, !.dns = c.dns]
          /\ arg = c.item
    /\ data_dir = NoData
    /\ ret = <<>>

\* result = do_sub(item, self)
Resolve ==
    /\ pc = "do_sub"
    /\ ret' = <<do_sub(arg, self)>>
    /\ pc' = "resolved"
    /\ UNCHANGED <<self, data_dir, world, arg>>

\* do_sub(result, self): the value just resolved is resolved again
ResolveAgain ==
    /\ pc = "resolved"
    /\ ~IsRaise(ret[1])
    /\ ret' = <<ret[1], do_sub(ret[1], self)>>
    /\ pc' = "resolved_again"
    /\ UNCHANGED <<self, data_dir, world, arg>>

SubNext == Resolve \/ ResolveAgain

SpecSub == SubInit /\ [][SubNext]_vars


----------------------------------------------------------------------------
(* Properties of do_sub and do_substr, under SpecSub *)

\* C4: a string whose trimmed content is exactly one marker %>k<% or >>k<< naming a
\* key k of defs resolves to defs[k] itself, type unchanged, for every kind of value
\* (String, Number, Bool true and false, List, Map, Null).
C4_WholeMarkerReturnsValue ==
    (/\ pc = "resolved"
     /\ IsStr(arg)
     /\ Strip(arg.v) \in { <<"%", ">", "k", "<", "%">>, <<">", ">", "k", "<", "<">> }
     /\ <<"k">> \in DOMAIN self.defs)
    => ret[1] = self.defs[<<"k">>]

\* an element of a list that, trimmed, is exactly one marker [>token<]
IsExactListMarker(elem) ==
    /\ IsStr(elem)
    /\ Len(Strip(elem.v)) >= 4
    /\ StartsWith(Strip(elem.v), <<"[", ">">>) /\ EndsWith(Strip(elem.v), <<"<", "]">>)
    /\ ~Contains(SubSeq(Strip(elem.v), 3, Len(Strip(elem.v)) - 2), <<"<", "]">>)

ExactListToken(elem) == SubSeq(Strip(elem.v), 3, Len(Strip(elem.v)) - 2)

\* what C5 says one element of a list contributes to the resolved list
C5_ElementYields(elem, imager) ==
    IF IsExactListMarker(elem) /\ ExactListToken(elem) \notin DOMAIN imager.defs
    THEN <<>>
    ELSE IF IsExactListMarker(elem) /\ IsList(imager.defs[ExactListToken(elem)])
    THEN imager.defs[ExactListToken(elem)].v
    ELSE <<do_sub(elem, imager)>>

\* C5: resolving a list replaces an element that is exactly one marker [>token<] by the
\* items of defs[token] when that is a List and by nothing when token is absent from
\* defs, and every element that is not exactly one such marker yields exactly one
\* output element, all in their order.
C5_ListSplice ==
    (/\ pc = "resolved"
     /\ IsList(arg)
     /\ \A i \in 1..Len(arg.v) :
           ~(IsExactListMarker(arg.v[i]) /\ ExactListToken(arg.v[i]) \in DOMAIN self.defs
             /\ ~IsList(self.defs[ExactListToken(arg.v[i])]))
     /\ ~IsRaise(ret[1]))
    => ret[1] = List(Flatten([i \in 1..Len(arg.v) |-> C5_ElementYields(arg.v[i], self)]))

\* the part of C5 the code keeps: the elements that are exactly one marker are spliced
\* or dropped, when every other element of the list holds no list marker delimiter
C5_ExactMarkersSpliced ==
    (/\ pc = "resolved"
     /\ IsList(arg)
     /\ \A i \in 1..Len(arg.v) :
           IF IsExactListMarker(arg.v[i])
           THEN ExactListToken(arg.v[i]) \in DOMAIN self.defs
                   => IsList(self.defs[ExactListToken(arg.v[i])])
           ELSE IsStr(arg.v[i]) /\ ~Contains(arg.v[i].v, <<"[", ">">>)
     /\ ~IsRaise(ret[1]))
    => ret[1] = List(Flatten([i \in 1..Len(arg.v) |-> C5_ElementYields(arg.v[i], self)]))

\* the texts of a value: the strings, the keys and the strings of what it contains
RECURSIVE TextsIn(_)
TextsIn(x) ==
    CASE IsStr(x) -> {x.v}
      [] IsList(x) -> UNION { TextsIn(x.v[i]) : i \in 1..Len(x.v) }
      [] IsMap(x) -> DOMAIN x.v \cup UNION { TextsIn(x.v[k]) : k \in DOMAIN x.v }
      [] OTHER -> {}

\* no marker of any family occurs in a value
NoMarkerLeft(x) ==
    \A s \in TextsIn(x) : \A a \in 1..Len(ACTIONS_) :
        extract_all(s, ACTIONS_[a][2], ACTIONS_[a][3]) = <<>>

\* C6: resolve is idempotent on resolved values: when resolve(v, ctx) holds no
\* remaining marker occurrence, resolve(resolve(v, ctx), ctx) = resolve(v, ctx).
C6_ResolveIdempotent ==
    (pc = "resolved_again" /\ NoMarkerLeft(ret[1])) => ret[2] = ret[1]


\* the text family m puts in place of its marker
C8_Filled(handled) == IF handled = Null THEN <<>> ELSE PyStr(handled)

\* what "x" + marker of n for k resolves to, when k stands for `val`, a value holding
\* the marker `mark` of family m: filled by m when m comes later, left when earlier
C8_Expected(n, m, val, mark, handled) ==
    IF m > n
    THEN <<"x">> \o Replace(PyStr(val), mark, C8_Filled(handled))
    ELSE <<"x">> \o PyStr(val)

\* C8: the families are applied once each in the order 1 to 12: when family n puts
\* inline a value holding a marker of a later family m, that marker is resolved by m
\* in the same call; a marker of an earlier family m stays in the output.
C8_FamiliesInOrder ==
    \A n \in Producers : \A m \in (1..12) \ {n} :
        (/\ pc = "resolved"
         /\ arg = Str(<<"x">> \o FamilyOpen(n) \o <<"k">> \o FamilyClose(n))
         /\ ACTION_HANDLERS(n, <<"k">>, self)
               = OrderVal(n, m))
        => ret[1] = Str(C8_Expected(n, m, ACTION_HANDLERS(n, <<"k">>, self),
                                    OrderMark(m),
                                    ACTION_HANDLERS(m, OrderToken(m), self)))

\* "x>>k<<" with defs.k = "$>j<$" and j = "u" in the environment has resolved to "xu"
C8_Witness ==
    /\ pc = "resolved"
    /\ arg = Str(<<"x", ">", ">", "k", "<", "<">>)
    /\ <<"k">> \in DOMAIN self.defs
    /\ self.defs[<<"k">>] = Str(<<"$", ">", "j", "<", "$">>)
    /\ ret[1] = Str(<<"x", "u">>)


\* The text to resolve is one arithmetic marker #>expr<#, alone or after the literal x
ArithPre == IF IsStr(arg) /\ StartsWith(arg.v, <<"x">>) THEN <<"x">> ELSE <<>>

ArithExpr == SubSeq(arg.v, Len(ArithPre) + 3, Len(arg.v) - 2)

ArithAsked ==
    /\ IsStr(arg)
    /\ Len(arg.v) >= Len(ArithPre) + 5
    /\ arg.v = ArithPre \o ArithMark(ArithExpr)
    /\ \A i \in 1..Len(ArithExpr) : ArithExpr[i] \notin {">", "<", "#"}

\* the operands of an expression, in order
Operands(expr) ==
    LET parts == SplitOps(expr) IN [i \in 1..((Len(parts) + 1) \div 2) |-> parts[2 * i - 1]]

\* an operand that names a key of defs, as opposed to an integer literal
IsKeyOperand(x) == x # <<>> /\ \A i \in 1..Len(x) : x[i] \in LowerChars \cup UpperChars

\* some operand of the expression is an absent key or a key with a falsy value
OperandMissing(expr, defs) ==
    \E i \in 1..Len(Operands(expr)) : ~Truthy(Get(defs, Operands(expr)[i], Null))

\* the expression divides by an operand whose value reads as zero
DividesByZero(expr, defs) ==
    LET parts == SplitOps(expr)
    IN  \E i \in 1..Len(parts) :
           /\ parts[i] = <<"/">>
           /\ i < Len(parts)
           /\ parts[i + 1] \in DOMAIN defs
           /\ PyStr(defs[parts[i + 1]]) = <<"0">>

\* C14: failures of the arithmetic, list-insertion and DNS families never abort and
\* degrade to an empty value: an arithmetic marker with a missing or falsy operand, or
\* one that divides by an operand whose value is "0", is replaced by the empty string;
\* a list-insertion marker whose token is absent yields the empty list; a DNS marker
\* whose lookup fails is replaced by the empty string.
C14_FailuresDegradeToEmpty ==
    pc # "do_sub" =>
      /\ (/\ ArithAsked
          /\ \A i \in 1..Len(Operands(ArithExpr)) : IsKeyOperand(Operands(ArithExpr)[i])
          /\ OperandMissing(ArithExpr, self.defs) \/ DividesByZero(ArithExpr, self.defs))
         => ret[1] = Str(ArithPre)
      /\ (arg = Str(<<"[", ">", "z", "<", "]">>) /\ <<"z">> \notin DOMAIN self.defs)
         => ret[1] = List(<<>>)
      /\ \A key \in {<<"k">>, <<"z">>}, pre \in {<<>>, <<"x">>} :
            (/\ arg = Str(pre \o <<"*", ">">> \o key \o <<"<", "*">>)
             /\ Get(self.defs, key, Str(<<>>)) \notin { Str(name) : name \in DOMAIN world.dns })
            => ret[1] = Str(pre)

\* the expression with every key replaced by the text of its value
RECURSIVE Valued(_, _, _)
Valued(parts, i, defs) ==
    IF i > Len(parts) THEN <<>>
    ELSE (IF i % 2 = 1 /\ IsKeyOperand(parts[i]) THEN PyStr(defs[parts[i]]) ELSE parts[i])
         \o Valued(parts, i + 1, defs)

\* every operand is a key of defs with a non-zero integer value, or an integer literal
OperandsValued(expr, defs) ==
    \A i \in 1..Len(Operands(expr)) :
       LET x == Operands(expr)[i]
       IN  IF IsKeyOperand(x)
           THEN x \in DOMAIN defs /\ defs[x].t = "num" /\ defs[x].v # 0
           ELSE IsIntLiteral(x)

\* C15: an arithmetic marker #>expr<# whose operands are keys of defs with non-zero
\* integer values or integer literals used as written is replaced by the integer
\* value of expr, * and / binding tighter than + and -, left to right.
C15_ArithmeticValue ==
    (/\ pc # "do_sub"
     /\ ArithAsked
     /\ ArithPre = <<>>
     /\ OperandsValued(ArithExpr, self.defs))
    => ret[1] = eval_arith(Valued(SplitOps(ArithExpr), 1, self.defs))

----------------------------------------------------------------------------
(* Composition of documents: src/lib/osimager/core.py.  A document is a Map; the
   values nested in it are held by value. *)

s_files == <<"f", "i", "l", "e", "s">>

s_evars == <<"e", "v", "a", "r", "s">>

s_defs == <<"d", "e", "f", "s">>

s_variables == <<"v", "a", "r", "i", "a", "b", "l", "e", "s">>

s_pre_provisioners == <<"p", "r", "e", "_", "p", "r", "o", "v", "i", "s", "i", "o", "n", "e", "r", "s">>

s_provisioners == <<"p", "r", "o", "v", "i", "s", "i", "o", "n", "e", "r", "s">>

s_post_provisioners == <<"p", "o", "s", "t", "_", "p", "r", "o", "v", "i", "s", "i", "o", "n", "e", "r", "s">>

s_config == <<"c", "o", "n", "f", "i", "g">>

s_method == <<"m", "e", "t", "h", "o", "d">>

s_merge == <<"m", "e", "r", "g", "e">>

s_include == <<"i", "n", "c", "l", "u", "d", "e">>

s_platform == <<"p", "l", "a", "t", "f", "o", "r", "m">>

s_location == <<"l", "o", "c", "a", "t", "i", "o", "n">>

s_dist == <<"d", "i", "s", "t">>

s_version == <<"v", "e", "r", "s", "i", "o", "n">>

s_arch == <<"a", "r", "c", "h">>

s_firmware == <<"f", "i", "r", "m", "w", "a", "r", "e">>

s_platform_specific == <<"p", "l", "a", "t", "f", "o", "r", "m", "_", "s", "p", "e", "c", "i", "f", "i", "c">>

s_location_specific == <<"l", "o", "c", "a", "t", "i", "o", "n", "_", "s", "p", "e", "c", "i", "f", "i", "c">>

s_dist_specific == <<"d", "i", "s", "t", "_", "s", "p", "e", "c", "i", "f", "i", "c">>

s_version_specific == <<"v", "e", "r", "s", "i", "o", "n", "_", "s", "p", "e", "c", "i", "f", "i", "c">>

s_arch_specific == <<"a", "r", "c", "h", "_", "s", "p", "e", "c", "i", "f", "i", "c">>

s_firmware_specific == <<"f", "i", "r", "m", "w", "a", "r", "e", "_", "s", "p", "e", "c", "i", "f", "i", "c">>

\* re.match: the pattern may end anywhere in the string
PrefixMatched(s, j) == TRUE

\* re.fullmatch: the pattern has to end where the string ends
FullMatched(s, j) == j = Len(s) + 1

\* re.fullmatch(pattern, string, re.IGNORECASE) from place i of the pattern and place j
\* of the string, for a pattern of literal characters, ".", "\d" and escaped
\* characters, each optionally followed by "*", "+" or "?"
RECURSIVE ReMatchFrom(_, _, _, _)
ReMatchFrom(p, i, s, j) ==
    IF i > Len(p) THEN FullMatched(s, j)
    ELSE LET esc == p[i] = "\\" /\ i < Len(p)
             al == IF esc THEN 2 ELSE 1
             q == IF i + al <= Len(p) /\ p[i + al] \in {"*", "+", "?"} THEN p[i + al] ELSE ""
             here == /\ j <= Len(s)
                     /\ IF esc
                        THEN (IF p[i + 1] = "d" THEN s[j] \in DigitChars ELSE s[j] = p[i + 1])
                        ELSE (IF p[i] = "." THEN s[j] # "\n"
                              ELSE LowerChar(s[j]) = LowerChar(p[i]))
         IN  CASE q = "" -> here /\ ReMatchFrom(p, i + al, s, j + 1)
               [] q = "*" -> \/ ReMatchFrom(p, i + al + 1, s, j)
                             \/ here /\ ReMatchFrom(p, i, s, j + 1)
               [] q = "+" -> here /\ (\/ ReMatchFrom(p, i + al + 1, s, j + 1)
                                      \/ ReMatchFrom(p, i, s, j + 1))
               [] q = "?" -> \/ ReMatchFrom(p, i + al + 1, s, j)
                             \/ here /\ ReMatchFrom(p, i + al + 1, s, j + 1)

\* re.fullmatch(pattern, string, re.IGNORECASE) is not None; "|" separates alternatives.
\* A pattern or a string that is no str is a TypeError, a pattern with nothing to
\* repeat an re.error.
re_fullmatch(pattern, string) ==
    IF ~IsStr(pattern) \/ ~IsStr(string) THEN Raise("TypeError")
    ELSE IF \E a \in 1..Len(Split(pattern.v, "|")) :
                /\ Split(pattern.v, "|")[a] # <<>>
                /\ Split(pattern.v, "|")[a][1] \in {"*", "+", "?"}
    THEN Raise("re.error")
    ELSE Bool(\E a \in 1..Len(Split(pattern.v, "|")) :
                 ReMatchFrom(Split(pattern.v, "|")[a], 1, string.v, 1))


\* what a function of the OSImager leaves: the object, the document it worked on and
\* the exception (or sys.exit) that ended it, Null when it returned
Done(imager, data, exc) == [self |-> imager, data |-> data, exc |-> exc]

\* the sections of load_data in the order processed: the attribute, the key of the
\* document, whether the attribute is a list
sections ==
    << [attr |-> "files", key |-> s_files, list |-> TRUE],
       [attr |-> "evars", key |-> s_evars, list |-> FALSE],
       [attr |-> "defs", key |-> s_defs, list |-> FALSE],
       [attr |-> "variables", key |-> s_variables, list |-> FALSE],
       [attr |-> "pre_provisioners", key |-> s_pre_provisioners, list |-> TRUE],
       [attr |-> "provisioners", key |-> s_provisioners, list |-> TRUE],
       [attr |-> "post_provisioners", key |-> s_post_provisioners, list |-> TRUE],
       [attr |-> "config", key |-> s_config, list |-> FALSE] >>

\* iterating a value: the items of a list, the keys of a dict, the characters of a str
IsIterable(x) == x.t \in {"list", "map", "str"}

Iterate(x) ==
    CASE IsList(x) -> x.v
      [] IsMap(x) -> [i \in 1..Len(SetToSeq(DOMAIN x.v)) |-> Str(SetToSeq(DOMAIN x.v)[i])]
      [] OTHER -> [i \in 1..Len(x.v) |-> Str(<<x.v[i]>>)]

\* what dict.update(x) takes: a dict, or a list of [key, value] pairs
IsMapping(x) ==
    \/ IsMap(x)
    \/ x = Str(<<>>)
    \/ IsList(x) /\ \A i \in 1..Len(x.v) :
          IsList(x.v[i]) /\ Len(x.v[i].v) = 2 /\ IsStr(x.v[i].v[1])

Mapping(x) ==
    CASE IsMap(x) -> x.v
      [] IsList(x) -> [k \in { x.v[i].v[1].v : i \in 1..Len(x.v) } |->
                          x.v[CHOOSE i \in 1..Len(x.v) :
                                 /\ x.v[i].v[1].v = k
                                 /\ \A j \in (i + 1)..Len(x.v) : x.v[j].v[1].v # k].v[2]]
      [] OTHER -> EmptyMap

\* the exception dict.update(x) raises for an x it does not take: TypeError when x,
\* or its first element that is not a pair, cannot be iterated, ValueError when that
\* element can be iterated and has not two items
UpdateError(x) ==
    LET items == Iterate(x)
        isPair(e) == IsList(e) /\ Len(e.v) = 2 /\ IsStr(e.v[1])
        bad == { i \in 1..Len(items) : ~isPair(items[i]) }
        first == CHOOSE i \in bad : \A j \in bad : i <= j
    IN  IF ~IsIterable(x) \/ bad = {} THEN Raise("TypeError")
        ELSE IF IsIterable(items[first]) THEN Raise("ValueError")
        ELSE Raise("TypeError")

\* load_data, the body of `for key in merge` for a key of new_val with a true value
MergeKey(attr, isList, key, key_val) ==
    IF isList THEN [attr |-> attr, exc |-> Raise("TypeError")]
    ELSE IF key \notin DOMAIN attr THEN [attr |-> Put(attr, key, key_val), exc |-> Null]
    ELSE IF IsMap(attr[key])
    THEN (IF IsMapping(key_val)
          THEN [attr |-> Put(attr, key, Map(Update(attr[key].v, Mapping(key_val)))),
                exc |-> Null]
          ELSE [attr |-> attr, exc |-> UpdateError(key_val)])
    ELSE IF IsList(attr[key])
    THEN (IF IsIterable(key_val)
          THEN [attr |-> Put(attr, key, List(attr[key].v \o Iterate(key_val))), exc |-> Null]
          ELSE [attr |-> attr, exc |-> Raise("TypeError")])
    ELSE [attr |-> Put(attr, key, key_val), exc |-> Null]

\* load_data, `for key in merge`: [attr, new_val, exc] after the keys from place i
RECURSIVE MergeKeys(_, _, _, _, _)
MergeKeyDone(isList, new_val, merge, i, r) ==
    IF r.exc # Null THEN [attr |-> r.attr, new_val |-> new_val, exc |-> r.exc]
    ELSE MergeKeys(r.attr, isList, new_val, merge, i + 1)

MergeKeys(attr, isList, new_val, merge, i) ==
    IF i > Len(merge) THEN [attr |-> attr, new_val |-> new_val, exc |-> Null]
    ELSE IF ~IsStr(merge[i]) \/ ~Truthy(Get(new_val, merge[i].v, Null))
    THEN MergeKeys(attr, isList, IF IsStr(merge[i]) THEN Pop(new_val, merge[i].v) ELSE new_val,
                   merge, i + 1)
    ELSE MergeKeyDone(isList, Pop(new_val, merge[i].v), merge, i,
                      MergeKey(attr, isList, merge[i].v, new_val[merge[i].v]))

\* the same without the clearing of a list when method is not "merge"
SectionAppend(isList, method, m) ==
    IF m.exc # Null THEN m
    ELSE IF isList
    THEN (IF IsIterable(m.new_val)
          THEN [m EXCEPT !.attr = m.attr \o Iterate(m.new_val)]
          ELSE [m EXCEPT !.exc = Raise("TypeError")])
    ELSE (IF IsMapping(m.new_val)
          THEN [m EXCEPT !.attr = Update(m.attr, Mapping(m.new_val))]
          ELSE [m EXCEPT !.exc = UpdateError(m.new_val)])

\* load_data, the end of the body of `for section in sections`: attr.update(new_val)
\* for a dict, attr.extend(new_val) for a list, cleared first unless method is "merge"
SectionStore(isList, method, m) ==
    IF m.exc # Null THEN m
    ELSE IF isList
    THEN (IF IsIterable(m.new_val)
          THEN [m EXCEPT !.attr = (IF method # Str(s_merge) THEN <<>> ELSE m.attr)
                                     \o Iterate(m.new_val)]
          ELSE [m EXCEPT !.attr = IF method # Str(s_merge) THEN <<>> ELSE m.attr,
                         !.exc = Raise("TypeError")])
    ELSE (IF IsMapping(m.new_val)
          THEN [m EXCEPT !.attr = Update(m.attr, Mapping(m.new_val))]
          ELSE [m EXCEPT !.exc = UpdateError(m.new_val)])

\* load_data, the body of `for section in sections` for a section the document has
SectionMerge(attr, isList, new_val, merge) ==
    IF ~IsIterable(merge)
    THEN [attr |-> attr, new_val |-> Map(Pop(new_val.v, s_merge)), exc |-> Raise("TypeError")]
    ELSE [MergeKeys(attr, isList, Pop(new_val.v, s_merge), Iterate(merge), 1) EXCEPT
             !.new_val = Map(@)]

ApplySection(attr, isList, new_val, method) ==
    SectionStore(isList, method,
                 IF IsMap(new_val)
                 THEN SectionMerge(attr, isList, new_val, Get(new_val.v, s_merge, List(<<>>)))
                 ELSE [attr |-> attr, new_val |-> new_val, exc |-> Null])


\* the categories with dist before platform
specifics_dist_first ==
    << [key |-> s_dist, data_key |-> s_dist_specific],
       [key |-> s_platform, data_key |-> s_platform_specific],
       [key |-> s_location, data_key |-> s_location_specific],
       [key |-> s_version, data_key |-> s_version_specific],
       [key |-> s_arch, data_key |-> s_arch_specific],
       [key |-> s_firmware, data_key |-> s_firmware_specific] >>

\* the categories of load_specific in the order processed, with their document keys
specifics ==
    << [key |-> s_platform, data_key |-> s_platform_specific],
       [key |-> s_location, data_key |-> s_location_specific],
       [key |-> s_dist, data_key |-> s_dist_specific],
       [key |-> s_version, data_key |-> s_version_specific],
       [key |-> s_arch, data_key |-> s_arch_specific],
       [key |-> s_firmware, data_key |-> s_firmware_specific] >>

RECURSIVE load_data(_, _)
RECURSIVE LoadSections(_, _, _, _)
RECURSIVE LoadEntries(_, _, _, _, _)
RECURSIVE LoadCategories(_, _, _)

\* load_data, `for section in sections` from section i; data is the dict of the document
SectionDone(imager, data, method, i, r) ==
    IF r.exc # Null
    THEN Done([imager EXCEPT ![sections[i].attr] = r.attr],
              Put(data, sections[i].key, r.new_val), r.exc)
    ELSE LoadSections([imager EXCEPT ![sections[i].attr] = r.attr],
                      Put(data, sections[i].key, r.new_val), method, i + 1)

LoadSections(imager, data, method, i) ==
    IF i > Len(sections) THEN Done(imager, data, Null)
    ELSE IF Get(data, sections[i].key, Null) = Null
    THEN LoadSections(imager, data, method, i + 1)
    ELSE SectionDone(imager, data, method, i,
                     ApplySection(imager[sections[i].attr], sections[i].list,
                                  data[sections[i].key], method))

\* load_specific, `for entry in specific_data` from entry i, for the category `cat`
\* whose value in defs was `name`: [self, entries, exc]
EntryLoaded(cat, name, entries, i, r) ==
    IF r.exc # Null
    THEN [self |-> r.self, entries |-> [entries EXCEPT ![i] = Map(r.data)], exc |-> r.exc]
    ELSE LoadEntries(r.self, cat, name, [entries EXCEPT ![i] = Map(r.data)], i + 1)

EntryMatched(imager, cat, name, entries, i, matched) ==
    IF IsRaise(matched) THEN [self |-> imager, entries |-> entries, exc |-> matched]
    ELSE IF matched.v THEN EntryLoaded(cat, name, entries, i, load_data(imager, entries[i].v))
    ELSE LoadEntries(imager, cat, name, entries, i + 1)

LoadEntries(imager, cat, name, entries, i) ==
    IF i > Len(entries) THEN [self |-> imager, entries |-> entries, exc |-> Null]
    ELSE IF ~IsMap(entries[i])
    THEN [self |-> imager, entries |-> entries, exc |-> Raise("AttributeError")]
    ELSE EntryMatched(imager, cat, name, [entries EXCEPT ![i] = Map(Pop(entries[i].v, cat))], i,
                      re_fullmatch(Get(entries[i].v, cat, Str(<<>>)), name))

\* load_specific, `for section in specifics` from category c
CategoryDone(data, c, r) ==
    IF r.exc # Null THEN Done(r.self, Put(data, specifics[c].data_key, List(r.entries)), r.exc)
    ELSE LoadCategories(r.self, Put(data, specifics[c].data_key, List(r.entries)), c + 1)

LoadCategories(imager, data, c) ==
    IF c > Len(specifics) THEN Done(imager, data, Null)
    ELSE IF \/ ~Truthy(Get(imager.defs, specifics[c].key, Null))
            \/ specifics[c].data_key \notin DOMAIN data
    THEN LoadCategories(imager, data, c + 1)
    ELSE IF ~IsList(data[specifics[c].data_key])
    THEN Done(imager, data, Raise("TypeError"))
    ELSE CategoryDone(data, c,
                      LoadEntries(imager, specifics[c].key, imager.defs[specifics[c].key],
                                  data[specifics[c].data_key].v, 1))

load_specific(imager, data) == LoadCategories(imager, data, 1)

\* load_data(data) on the dict of a document: [self, data, exc], data as the call
\* leaves the dict
SectionsLoaded(r) == IF r.exc # Null THEN r ELSE load_specific(r.self, r.data)

load_data(imager, data) ==
    SectionsLoaded(LoadSections(imager, Pop(data, s_method),
                                Get(data, s_method, Str(s_merge)), 1))


\* the file load_data_file(where, what) names: data_dir/where/what.json, or
\* data_dir/specs/what/spec.json for a spec, held under `what` without the extension
FileOf(where, what) ==
    IF where # "specs" /\ EndsWith(what, <<".", "j", "s", "o", "n">>)
    THEN SubSeq(what, 1, Len(what) - 5)
    ELSE what

RECURSIVE load_file(_, _, _, _)
RECURSIVE LoadIncs(_, _, _, _, _, _)

\* load_data_file(where, what); depth counts the includes being followed
load_data_file(imager, where, what, depth) ==
    IF what = Null THEN Done(imager, Null, Null)
    ELSE IF ~IsStr(what) THEN Done(imager, Null, Raise("TypeError"))
    ELSE load_file(imager, where, FileOf(where, what.v), depth)

\* load_inc(where, what, data), after inc_data = load_data_file(where, what) left inc
DataLoaded(inc, r) ==
    IF r.exc # Null THEN Done(r.self, Map(r.data), r.exc)
    ELSE IF ~IsMap(inc.data) THEN Done(r.self, Map(r.data), Raise("AttributeError"))
    ELSE Done(r.self, Map(Update(inc.data.v, r.data)), Null)

IncLoaded(inc, data) ==
    IF inc.exc # Null THEN Done(inc.self, data, inc.exc)
    ELSE IF ~IsMap(data) THEN Done(inc.self, data, Raise("AttributeError"))
    ELSE DataLoaded(inc, load_data(inc.self, data.v))

load_inc(imager, where, what, data, depth) ==
    IF what = Null THEN Done(imager, Null, Null)
    ELSE IncLoaded(load_data_file(imager, where, what, depth + 1), data)

\* load_file, `for inc in incs` from include i
IncDone(where, incs, i, depth, r) ==
    IF r.exc # Null THEN r ELSE LoadIncs(r.self, where, incs, i + 1, r.data, depth)

LoadIncs(imager, where, incs, i, data, depth) ==
    IF i > Len(incs) THEN Done(imager, data, Null)
    ELSE IncDone(where, incs, i, depth, load_inc(imager, where, incs[i], data, depth))

\* load_data(data) of load_file, the result holding the document as a value
DataOnly(r) == Done(r.self, Map(r.data), r.exc)

\* load_file(where, file_path): read_data ends the program when the file is missing;
\* includes that never end exhaust the stack
load_file(imager, where, file_path, depth) ==
    IF file_path \notin DOMAIN data_dir[where] THEN Done(imager, Null, Raise("SystemExit"))
    ELSE IF depth > Cardinality(DOMAIN data_dir[where])
    THEN Done(imager, Null, Raise("RecursionError"))
    ELSE IF ~IsMap(data_dir[where][file_path]) THEN Done(imager, Null, Raise("AttributeError"))
    ELSE IF ~Truthy(Get(data_dir[where][file_path].v, s_include, Null))
    THEN DataOnly(load_data(imager, Pop(data_dir[where][file_path].v, s_include)))
    ELSE IF IsList(data_dir[where][file_path].v[s_include])
    THEN LoadIncs(imager, where, data_dir[where][file_path].v[s_include].v, 1,
                  Map(Pop(data_dir[where][file_path].v, s_include)), depth)
    ELSE IF IsStr(data_dir[where][file_path].v[s_include])
    THEN load_inc(imager, where, data_dir[where][file_path].v[s_include],
                  Map(Pop(data_dir[where][file_path].v, s_include)), depth)
    ELSE Done(imager, Map(Pop(data_dir[where][file_path].v, s_include)), Null)


----------------------------------------------------------------------------
(* The catalog of specs: src/lib/osimager/utils.py, src/lib/osimager/core.py *)

\* re.compile(r'\[([^\[\]]+)\]').finditer(s) from place i: the [first, last] places of
\* the groups, a "[" followed by one or more characters that are no bracket and a "]"
RECURSIVE GroupsFrom(_, _)
GroupsFrom(s, i) ==
    LET stops == { j \in (i + 1)..Len(s) : s[j] \in {"[", "]"} }
        j == CHOOSE h \in stops : \A g \in stops : h <= g
    IN  IF i > Len(s) THEN <<>>
        ELSE IF s[i] = "[" /\ stops # {} /\ s[j] = "]" /\ j > i + 1
        THEN <<(<<i, j>>)>> \o GroupsFrom(s, j + 1)
        ELSE GroupsFrom(s, i + 1)

\* int(s) of a text with digits only, blanks around them allowed
IsIntText(s) == IsDigits(Strip(s))

\* the values of one group of explode_string_with_dynamic_range; a range that does
\* not read as two integers is a ValueError
GroupValues(text) ==
    LET bounds == Split(text, "-")
        start == ParseNat(Strip(bounds[1]))
        end == ParseNat(Strip(bounds[2]))
        padded == \/ (StartsWith(bounds[1], <<"0">>) /\ Len(bounds[1]) > 1)
                  \/ (StartsWith(bounds[2], <<"0">>) /\ Len(bounds[2]) > 1)
        width == IF Len(bounds[1]) > Len(bounds[2]) THEN Len(bounds[1]) ELSE Len(bounds[2])
        items == Split(text, ",")
    IN  IF Contains(text, <<"-">>) /\ ~Contains(text, <<",">>)
        THEN IF Len(bounds) # 2 \/ ~IsIntText(bounds[1]) \/ ~IsIntText(bounds[2])
             THEN Raise("ValueError")
             ELSE List([n \in 1..(IF end >= start THEN end - start + 1 ELSE 0) |->
                          IF padded THEN ZFill(NatStr(start + n - 1), width)
                          ELSE NatStr(start + n - 1)])
        ELSE List([n \in 1..Len(items) |-> Strip(items[n])])

\* pattern.sub("{}", s): every group replaced by "{}"
RECURSIVE SubGroups(_, _, _)
SubGroups(s, groups, g) ==
    IF g > Len(groups) THEN s
    ELSE SubSeq(s, 1, groups[g][1] - 1) \o <<"{", "}">>
         \o SubGroups(Drop(s, groups[g][2] + 1),
                      [h \in 1..Len(groups) |->
                          <<groups[h][1] - groups[g][2], groups[h][2] - groups[g][2]>>],
                      g + 1)

\* template.format(*p) from place i with the arguments from n on: "{{" and "}}" give
\* a brace, "{}" the next argument; any other brace is an error (the texts hold no
\* ":" and no "!")
RECURSIVE Format(_, _, _, _)
FormatRest(c, rest) == IF IsRaise(rest) THEN rest ELSE Str(c \o rest.v)

Format(template, i, p, n) ==
    IF i > Len(template) THEN Str(<<>>)
    ELSE IF template[i] \notin {"{", "}"}
    THEN FormatRest(<<template[i]>>, Format(template, i + 1, p, n))
    ELSE IF i < Len(template) /\ template[i + 1] = template[i]
    THEN FormatRest(<<template[i]>>, Format(template, i + 2, p, n))
    ELSE IF template[i] = "{" /\ i < Len(template) /\ template[i + 1] = "}"
    THEN (IF n > Len(p) THEN Raise("IndexError")
          ELSE FormatRest(p[n], Format(template, i + 2, p, n + 1)))
    ELSE Raise("ValueError")

\* itertools.product(*parts): the leftmost part varies slowest
RECURSIVE Product(_)
Product(parts) ==
    IF parts = <<>> THEN << <<>> >>
    ELSE Flatten([a \in 1..Len(parts[1]) |->
                     [b \in 1..Len(Product(Tail(parts))) |->
                         <<parts[1][a]>> \o Product(Tail(parts))[b]]])

\* explode_string_with_dynamic_range, once the groups and the template are known
Combos(template, parts) ==
    IF FirstRaise(parts) # Null THEN FirstRaise(parts)
    ELSE IF FirstRaise([c \in 1..Len(Product([g \in 1..Len(parts) |-> parts[g].v])) |->
                           Format(template, 1, Product([g \in 1..Len(parts) |-> parts[g].v])[c], 1)])
            # Null
    THEN Raise("ValueError")
    ELSE List([c \in 1..Len(Product([g \in 1..Len(parts) |-> parts[g].v])) |->
                  Format(template, 1, Product([g \in 1..Len(parts) |-> parts[g].v])[c], 1)])

Exploded(input_string, groups) ==
    IF groups = <<>> THEN List(<<Str(input_string)>>)
    ELSE Combos(SubGroups(input_string, groups, 1),
                [g \in 1..Len(groups) |->
                    GroupValues(SubSeq(input_string, groups[g][1] + 1, groups[g][2] - 1))])

explode_string_with_dynamic_range(input_string) ==
    Exploded(input_string, GroupsFrom(input_string, 1))


----------------------------------------------------------------------------
(* Expanding a versions text: explode_string_with_dynamic_range(input_string), the
   text made of literal segments and bracket groups *)

MaxGroups == 2

\* the literal segments: empty, plain text, a brace
ExpandLits == { <<>>, <<"v", "-">>, <<".">>, <<"{">> }

\* the groups: ranges from..to as written (bounds with and without leading zeros) and
\* lists of items
ExpandGroups ==
    { [k |-> "range", from |-> <<"1">>, to |-> <<"3">>],
      [k |-> "range", from |-> <<"0", "1">>, to |-> <<"0", "3">>],
      [k |-> "range", from |-> <<"9">>, to |-> <<"1", "0">>],
      [k |-> "range", from |-> <<"0", "9">>, to |-> <<"1", "0">>],
      [k |-> "range", from |-> <<"2">>, to |-> <<"2">>],
      [k |-> "range", from |-> <<"0">>, to |-> <<"1">>],
      [k |-> "range", from |-> <<"1">>, to |-> <<"0", "0", "2">>],
      [k |-> "list", items |-> <<(<<"2", "0">>), (<<"2", "2">>)>>],
      [k |-> "list", items |-> <<(<<"x">>)>>],
      [k |-> "list", items |-> <<(<<"b">>), (<<"a">>), (<<"b">>)>>] }

\* the text of a group as written in the versions text
GroupText(g) ==
    IF g.k = "range" THEN <<"[">> \o g.from \o <<"-">> \o g.to \o <<"]">>
    ELSE <<"[">> \o Join(g.items, <<",">>) \o <<"]">>

\* the inputs: a literal, then up to MaxGroups times a group and a literal
RECURSIVE ExpandShapes(_)
ExpandShapes(n) ==
    IF n = 0 THEN { [lit |-> l, rest |-> <<>>] : l \in ExpandLits }
    ELSE ExpandShapes(n - 1)
         \cup { [lit |-> s.lit, rest |-> s.rest \o <<[group |-> g, lit |-> l]>>] :
                  s \in { t \in ExpandShapes(n - 1) : Len(t.rest) = n - 1 },
                  g \in ExpandGroups, l \in ExpandLits }

ShapeText(shape) ==
    shape.lit \o Flatten([i \in 1..Len(shape.rest) |->
                             GroupText(shape.rest[i].group) \o shape.rest[i].lit])

ExpandInit ==
    /\ pc = "explode"
    /\ self = init_vars
    /\ data_dir = NoData
    /\ world = NoWorld
    /\ \E shape \in ExpandShapes(MaxGroups) :
          arg = [input_string |-> ShapeText(shape), shape |-> shape]
    /\ ret = <<>>

\* version_list = explode_string_with_dynamic_range(input_string)
Explode ==
    /\ pc = "explode"
    /\ ret' = <<explode_string_with_dynamic_range(arg.input_string)>>
    /\ pc' = "exploded"
    /\ UNCHANGED <<self, data_dir, world, arg>>

ExpandNext == Explode

SpecExpand == ExpandInit /\ [][ExpandNext]_vars

\* the reference expansion of a group: the integers from..to ascending, zero-padded to
\* the wider of the two written widths iff a bound is written with a leading zero and
\* more than one digit; the items of a list in written order
RefValues(g) ==
    IF g.k = "list" THEN g.items
    ELSE [n \in 1..(ParseNat(g.to) - ParseNat(g.from) + 1) |->
             IF \/ (Len(g.from) > 1 /\ g.from[1] = "0")
                \/ (Len(g.to) > 1 /\ g.to[1] = "0")
             THEN ZFill(NatStr(ParseNat(g.from) + n - 1),
                        IF Len(g.from) > Len(g.to) THEN Len(g.from) ELSE Len(g.to))
             ELSE NatStr(ParseNat(g.from) + n - 1)]

\* the reference expansion of the groups from place i on, followed by their literals:
\* one text per element of the Cartesian product, the leftmost group varying slowest
RECURSIVE RefTails(_, _)
RefTails(rest, i) ==
    IF i > Len(rest) THEN << <<>> >>
    ELSE Flatten([a \in 1..Len(RefValues(rest[i].group)) |->
                     [b \in 1..Len(RefTails(rest, i + 1)) |->
                         RefValues(rest[i].group)[a] \o rest[i].lit \o RefTails(rest, i + 1)[b]]])

RefExpansion(shape) ==
    List([c \in 1..Len(RefTails(shape.rest, 1)) |-> Str(shape.lit \o RefTails(shape.rest, 1)[c])])

\* C9: expand_versions(s) equals the reference expansion: ranges ascending and
\* zero-padded as written, lists in written order, one string per element of the
\* Cartesian product with the leftmost group varying slowest, [s] when s has no group.
C9_ExpandIsReference ==
    pc = "exploded" => ret[1] = RefExpansion(arg.shape)

\* the same for the texts that hold no brace outside their groups
C9_ExpandWithoutBraces ==
    (/\ pc = "exploded"
     /\ ~Contains(arg.shape.lit, <<"{">>)
     /\ \A i \in 1..Len(arg.shape.rest) : ~Contains(arg.shape.rest[i].lit, <<"{">>))
    => ret[1] = RefExpansion(arg.shape)


----------------------------------------------------------------------------
(* The index of specs: spec_get_provides, make_index, get_index of
   src/lib/osimager/core.py *)

s_provides == <<"p", "r", "o", "v", "i", "d", "e", "s">>

s_versions == <<"v", "e", "r", "s", "i", "o", "n", "s">>

s_arches == <<"a", "r", "c", "h", "e", "s">>

s_path == <<"p", "a", "t", "h">>

s_name == <<"n", "a", "m", "e">>

s_x86_64 == <<"x", "8", "6", "_", "6", "4">>

s_amd64 == <<"a", "m", "d", "6", "4">>

\* spec_get_provides, the inner `for vs in version_specific` from entry i: the arches
\* the last matching entry that has some supplies, ver_arches until then
RECURSIVE VerArches(_, _, _, _)
VsMatched(version_specific, version, i, ver_arches, matched) ==
    IF IsRaise(matched) THEN matched
    ELSE VerArches(version_specific, version, i + 1,
                   IF matched.v /\ Truthy(Get(version_specific[i].v, s_arches, Null))
                   THEN version_specific[i].v[s_arches]
                   ELSE ver_arches)

VerArches(version_specific, version, i, ver_arches) ==
    IF i > Len(version_specific) THEN ver_arches
    ELSE IF ~IsMap(version_specific[i]) THEN Raise("AttributeError")
    ELSE VsMatched(version_specific, version, i, ver_arches,
                   re_fullmatch(Get(version_specific[i].v, s_version, Str(<<>>)), Str(version)))

\* spec_get_provides, the body of `for version in version_list` once the arches of
\* the version are known
ProvideEntries(dist, version, arches) ==
    IF IsRaise(arches) THEN <<arches>>
    ELSE IF ~IsIterable(arches) THEN <<Raise("TypeError")>>
    ELSE [a \in 1..Len(Iterate(arches)) |->
             Map((s_dist :> dist) @@ (s_version :> Str(version))
                 @@ (s_arch :> Iterate(arches)[a]))]

\* version_list: every text of versions exploded, in order
VersionList(versions) ==
    IF IsStr(versions) THEN explode_string_with_dynamic_range(versions.v)
    ELSE IF ~IsList(versions) \/ \E i \in 1..Len(versions.v) : ~IsStr(versions.v[i])
    THEN Raise("TypeError")
    ELSE IF FirstRaise([i \in 1..Len(versions.v) |->
                           explode_string_with_dynamic_range(versions.v[i].v)]) # Null
    THEN Raise("ValueError")
    ELSE List(Flatten([i \in 1..Len(versions.v) |->
                          explode_string_with_dynamic_range(versions.v[i].v).v]))

ProvideList(provide_list) ==
    IF FirstRaise(provide_list) # Null THEN FirstRaise(provide_list) ELSE List(provide_list)

\* the arches of provides whatever version_specific supplies
ProvidesArchesOnly(ver_arches, default_arches) == default_arches

\* arches = ver_arches if ver_arches else default_arches
EffectiveArches(ver_arches, default_arches) ==
    IF Truthy(ver_arches) \/ IsRaise(ver_arches) THEN ver_arches ELSE default_arches

Provided(provides, version_list, version_specific) ==
    IF IsRaise(version_list) THEN version_list
    ELSE IF /\ version_list.v # <<>>
            /\ ~IsList(version_specific)
            /\ version_specific \notin {Map(EmptyMap), Str(<<>>)}
    THEN Raise("AttributeError")
    ELSE ProvideList(Flatten([v \in 1..Len(version_list.v) |->
            ProvideEntries(provides[s_dist], version_list.v[v].v,
                           EffectiveArches(
                               VerArches(IF IsList(version_specific) THEN version_specific.v
                                         ELSE <<>>,
                                         version_list.v[v].v, 1, Null),
                               Get(provides, s_arches, Null)))]))

\* spec_get_provides(file_name, data): the {dist, version, arch} entries a spec
\* document provides; checkit ends the program
spec_get_provides(data) ==
    IF ~IsMap(data) THEN Raise("AttributeError")
    ELSE IF ~Truthy(Get(data.v, s_provides, Null)) THEN List(<<>>)
    ELSE IF ~IsMap(data.v[s_provides]) THEN Raise("AttributeError")
    ELSE IF \/ ~Truthy(Get(data.v[s_provides].v, s_dist, Null))
            \/ ~Truthy(Get(data.v[s_provides].v, s_versions, Null))
    THEN Raise("SystemExit")
    ELSE Provided(data.v[s_provides].v, VersionList(data.v[s_provides].v[s_versions]),
                  Get(data.v, s_version_specific, List(<<>>)))


\* the printable ASCII characters in the order of their codes; "\f" stands for the
\* grave accent, which a string of this module cannot hold
Ascii ==
    << " ", "!", "\"", "#", "$", "%", "&", "'", "(", ")", "*", "+", ",", "-", ".", "/",
       "0", "1", "2", "3", "4", "5", "6", "7", "8", "9", ":", ";", "<", "=", ">", "?",
       "@", "A", "B", "C", "D", "E", "F", "G", "H", "I", "J", "K", "L", "M", "N", "O",
       "P", "Q", "R", "S", "T", "U", "V", "W", "X", "Y", "Z", "[", "\\", "]", "^", "_",
       "\f", "a", "b", "c", "d", "e", "f", "g", "h", "i", "j", "k", "l", "m", "n", "o",
       "p", "q", "r", "s", "t", "u", "v", "w", "x", "y", "z", "{", "|", "}", "~" >>

Ord(c) == CHOOSE i \in 1..Len(Ascii) : Ascii[i] = c

\* re.split(r'(\d+)', s): the texts between the runs of digits at the odd places,
\* the runs of digits at the even ones
RECURSIVE SplitDigits(_)
SplitDigits(s) ==
    LET starts == { i \in 1..Len(s) : s[i] \in DigitChars }
        i == CHOOSE h \in starts : \A g \in starts : h <= g
        ends == { j \in i..Len(s) : j = Len(s) \/ s[j + 1] \notin DigitChars }
        j == CHOOSE h \in ends : \A g \in ends : h <= g
    IN  IF starts = {} THEN <<s>>
        ELSE <<SubSeq(s, 1, i - 1), SubSeq(s, i, j)>> \o SplitDigits(Drop(s, j + 1))

\* a < b for two texts compared as str: by the codes of their characters
RECURSIVE TextLess(_, _)
TextLess(a, b) ==
    IF a = <<>> THEN b # <<>>
    ELSE IF b = <<>> THEN FALSE
    ELSE IF a[1] # b[1] THEN Ord(a[1]) < Ord(b[1])
    ELSE TextLess(Tail(a), Tail(b))

\* natural_key(s) < natural_key(t), given the two splits: the texts compared in lower
\* case, the runs of digits as integers, place by place
RECURSIVE KeyLess(_, _, _)
KeyLess(a, b, i) ==
    IF i > Len(a) THEN i <= Len(b)
    ELSE IF i > Len(b) THEN FALSE
    ELSE IF i % 2 = 0
    THEN (IF ParseNat(a[i]) # ParseNat(b[i]) THEN ParseNat(a[i]) < ParseNat(b[i])
          ELSE KeyLess(a, b, i + 1))
    ELSE (IF [n \in 1..Len(a[i]) |-> LowerChar(a[i][n])] # [n \in 1..Len(b[i]) |-> LowerChar(b[i][n])]
          THEN TextLess([n \in 1..Len(a[i]) |-> LowerChar(a[i][n])],
                        [n \in 1..Len(b[i]) |-> LowerChar(b[i][n])])
          ELSE KeyLess(a, b, i + 1))

\* the keys compared as plain texts, digit by digit
plain_key_less(s, t) == TextLess(s, t)

natural_key_less(s, t) == KeyLess(SplitDigits(s), SplitDigits(t), 1)

\* sorted(index, key=natural_key) on the keys of the items: stable, keys that compare
\* equal stay in the order they were inserted
RECURSIVE SortedItems(_)
SortedItems(items) ==
    IF items = <<>> THEN <<>>
    ELSE LET first == CHOOSE i \in 1..Len(items) :
                         /\ \A j \in 1..Len(items) : ~natural_key_less(items[j].key, items[i].key)
                         /\ \A j \in 1..(i - 1) : natural_key_less(items[j].key, items[i].key)
                                                   \/ natural_key_less(items[i].key, items[j].key)
         IN  <<items[first]>>
             \o SortedItems([n \in 1..(Len(items) - 1) |->
                                IF n < first THEN items[n] ELSE items[n + 1]])


\* an insertion-ordered dict: its items [key, val] in the order of insertion
Dict(items) == [t |-> "dict", v |-> items]

\* index[key] = val: a key already there keeps its place
IndexPut(items, key, val) ==
    IF \E i \in 1..Len(items) : items[i].key = key
    THEN [i \in 1..Len(items) |-> IF items[i].key = key THEN [key |-> key, val |-> val]
                                  ELSE items[i]]
    ELSE Append(items, [key |-> key, val |-> val])

\* index.get(name, None)
IndexGet(index, name) ==
    IF \E i \in 1..Len(index.v) : index.v[i].key = name
    THEN index.v[CHOOSE i \in 1..Len(index.v) : index.v[i].key = name].val
    ELSE Null

\* make_index, the arches the documents of a directory list: each entry of `arches`,
\* and amd64 where x86_64 is listed
ListsArches(docs) ==
    \A n \in DOMAIN docs : IsMap(docs[n]) /\ IsIterable(Get(docs[n].v, s_arches, List(<<>>)))

ListedArches(docs) ==
    UNION { { Iterate(Get(docs[n].v, s_arches, List(<<>>)))[i] :
                i \in 1..Len(Iterate(Get(docs[n].v, s_arches, List(<<>>)))) } : n \in DOMAIN docs }

WithAmd64(arches) == IF Str(s_x86_64) \in arches THEN arches \cup {Str(s_amd64)} ELSE arches

\* make_index, `for entry in spec_provides` from entry e of the spec at file_name.
\* The entry's iso_local, whether its ISO is in the local cache, is left out.
RECURSIVE IndexEntries(_, _, _, _, _)
IndexEntries(index, spec_provides, e, arches, file_name) ==
    IF e > Len(spec_provides) THEN Dict(index)
    ELSE IF spec_provides[e].v[s_arch] \notin arches
    THEN IndexEntries(index, spec_provides, e + 1, arches, file_name)
    ELSE IF ~IsStr(spec_provides[e].v[s_dist]) \/ ~IsStr(spec_provides[e].v[s_arch])
    THEN Raise("TypeError")
    ELSE IndexEntries(IndexPut(index,
                               spec_provides[e].v[s_dist].v \o <<"-">>
                                   \o spec_provides[e].v[s_version].v \o <<"-">>
                                   \o spec_provides[e].v[s_arch].v,
                               Map((s_provides :> spec_provides[e]) @@ (s_path :> Str(file_name)))),
                      spec_provides, e + 1, arches, file_name)

\* make_index, `for file_name in files` from file f; files are the documents under
\* specs/ in the order the directory walk finds them
RECURSIVE IndexFiles(_, _, _, _)
FileIndexed(files, f, arches, index) ==
    IF IsRaise(index) THEN index ELSE IndexFiles(files, f + 1, arches, index.v)

FileProvides(files, f, arches, index, spec_provides) ==
    IF IsRaise(spec_provides) THEN spec_provides
    ELSE FileIndexed(files, f, arches,
                     IndexEntries(index, spec_provides.v, 1, arches, files[f]))

IndexFiles(files, f, arches, index) ==
    IF f > Len(files) THEN Dict(index)
    ELSE FileProvides(files, f, arches, index, spec_get_provides(data_dir.specs[files[f]]))

Sorted(index) == IF IsRaise(index) THEN index ELSE Dict(SortedItems(index.v))

\* make_index(): the sorted index, before it is saved
make_index(files) ==
    IF ~ListsArches(data_dir.platforms) \/ ~ListsArches(data_dir.locations)
    THEN Raise("TypeError")
    ELSE Sorted(IndexFiles(files, 1,
                           WithAmd64(ListedArches(data_dir.platforms)
                                     \cup ListedArches(data_dir.locations)),
                           <<>>))

\* find_files(root_dir, pattern): the orders Path.rglob can find the documents in
find_files(specs) ==
    { files \in [1..Cardinality(DOMAIN specs) -> DOMAIN specs] :
        \A i, j \in DOMAIN files : i # j => files[i] # files[j] }

\* get_index(name): from index.json when the file is there, else from make_index()
Looked(index, name) ==
    IF IsRaise(index) \/ name = <<>> THEN index ELSE IndexGet(index, name)

get_index(name) ==
    Looked(IF data_dir.index # Null THEN data_dir.index ELSE make_index(data_dir.walk), name)


----------------------------------------------------------------------------
(* Building the index: make_index() over a data directory, then get_index(name) *)

MaxSpecs == 2

s_aarch64 == <<"a", "a", "r", "c", "h", "6", "4">>

\* init_settings: the default settings
init_settings ==
    [ base_dir |-> <<"/", "o">>,
      data_dir |-> <<"d", "a", "t", "a">>,
      install_dir |-> <<"i", "n", "s", "t", "a", "l", "l">>,
      vaultconfig |-> <<".", "v", "a", "u", "l", "t", "c", "o", "n", "f", "i", "g">>,
      venv_dir |-> <<"/", "h", "/", ".", "v", "e", "n", "v">>,
      packer_cache_dir |-> <<"/", "t", "m", "p">>,
      ansible_playbook |-> <<"c", "o", "n", "f", "i", "g", ".", "y", "m", "l">>,
      local_only |-> FALSE,
      save_index |-> FALSE ]

\* a platform or location document listing arches
ArchesDoc(arches) == Map(s_arches :> List([i \in 1..Len(arches) |-> Str(arches[i])]))

IndexPlatforms ==
    { <<"p">> :> ArchesDoc(<<s_x86_64>>),
      <<"p">> :> ArchesDoc(<<s_aarch64>>),
      <<"p">> :> Map(EmptyMap) }

IndexLocations == { EmptyMap, <<"l">> :> ArchesDoc(<<s_aarch64>>) }

\* a spec document: provides {dist, versions, arches} and version_specific entries
ProvidesDoc(dist, versions, arches, version_specific) ==
    Map((s_provides :> Map((s_dist :> Str(dist)) @@ (s_versions :> versions)
                           @@ (s_arches :> List([i \in 1..Len(arches) |-> Str(arches[i])]))))
        @@ (s_version_specific :> List(version_specific)))

\* a version_specific entry supplying arches
VsArches(version, arches) ==
    Map((s_version :> Str(version))
        @@ (s_arches :> List([i \in 1..Len(arches) |-> Str(arches[i])])))

IndexSpecDocs ==
    { ProvidesDoc(<<"r">>, List(<<Str(<<"9">>), Str(<<"1", "0">>)>>), <<s_x86_64, s_aarch64>>,
                  <<>>),
      ProvidesDoc(<<"r">>, Str(<<"[", "9", "-", "1", "0", "]">>), <<s_amd64>>,
                  <<VsArches(<<"9">>, <<s_aarch64>>)>>),
      ProvidesDoc(<<"r">>, Str(<<"9", ".", "[", "0", "-", "1", "]">>), <<s_x86_64>>,
                  <<VsArches(<<"9", "\\", ".", ".", "*">>, <<s_aarch64>>),
                    Map((s_version :> Str(<<"9", ".", "1">>)) @@ (s_defs :> Map(EmptyMap)))>>),
      ProvidesDoc(<<"R">>, Str(<<"9">>), <<s_x86_64>>, <<>>),
      Map(s_defs :> Map(EmptyMap)) }

\* the names of the spec directories
SpecNames == <<(<<"a">>), (<<"b">>), (<<"c">>), (<<"d">>)>>

IndexSpecs ==
    UNION { [{ SpecNames[i] : i \in 1..n } -> IndexSpecDocs] : n \in 0..MaxSpecs }

IndexInit ==
    /\ pc = "make_index"
    /\ \E save \in BOOLEAN :
          self = init_vars @@ [settings |-> [init_settings EXCEPT !.save_index = save]]
    /\ \E platforms \in IndexPlatforms, locations \in IndexLocations, specs \in IndexSpecs :
          \E files \in find_files(specs) :
             data_dir = [platforms |-> platforms, locations |-> locations, specs |-> specs,
                         index |-> Null, walk |-> files]
    /\ world = NoWorld
    /\ arg = <<>>
    /\ ret = <<>>

\* index = make_index(), saved to index.json when settings.save_index is set
MakeIndex ==
    /\ pc = "make_index"
    /\ ret' = <<make_index(data_dir.walk)>>
    /\ arg' = arg
    /\ data_dir' = IF self.settings.save_index /\ ~IsRaise(ret'[1])
                   THEN [data_dir EXCEPT !.index = ret'[1]]
                   ELSE data_dir
    /\ pc' = "indexed"
    /\ UNCHANGED <<self, world>>

\* get_index(name) for the key of a spec
GetIndex ==
    /\ pc = "indexed"
    /\ \E name \in { <<"r", "-", "9", "-">> \o a : a \in {s_x86_64, s_aarch64, s_amd64} } :
          /\ arg' = name
          /\ ret' = <<ret[1], get_index(name)>>
    /\ pc' = "looked_up"
    /\ UNCHANGED <<self, data_dir, world>>

IndexNext == MakeIndex \/ GetIndex

SpecIndex == IndexInit /\ [][IndexNext]_vars


----------------------------------------------------------------------------
(* Properties of the index *)

\* the effective arch list of a version as the catalog is described: the arches of the
\* last version_specific entry whose pattern full-matches the version and supplies
\* arches, else provides.arches
StatedArches(doc, version) ==
    LET vs == Get(doc.v, s_version_specific, List(<<>>)).v
        hits == { i \in 1..Len(vs) :
                    /\ re_fullmatch(Get(vs[i].v, s_version, Str(<<>>)), Str(version)) = Bool(TRUE)
                    /\ Truthy(Get(vs[i].v, s_arches, Null)) }
        last == CHOOSE i \in hits : \A j \in hits : j <= i
        arches == IF hits = {} THEN doc.v[s_provides].v[s_arches] ELSE vs[last].v[s_arches]
    IN  { arches.v[i] : i \in 1..Len(arches.v) }

\* the versions of a spec document with a provides section
StatedVersions(doc) ==
    LET version_list == VersionList(doc.v[s_provides].v[s_versions])
    IN  { version_list.v[i].v : i \in 1..Len(version_list.v) }

\* the spec documents with a provides section, and their targets {dist, version, arch}
Providing == { n \in DOMAIN data_dir.specs : Truthy(Get(data_dir.specs[n].v, s_provides, Null)) }

StatedTargets ==
    { [name |-> n, dist |-> data_dir.specs[n].v[s_provides].v[s_dist], version |-> v, arch |-> a] :
        n \in Providing,
        v \in UNION { StatedVersions(data_dir.specs[m]) : m \in Providing },
        a \in {Str(s_x86_64), Str(s_aarch64), Str(s_amd64)} }

Targets ==
    { t \in StatedTargets : /\ t.version \in StatedVersions(data_dir.specs[t.name])
                            /\ t.arch \in StatedArches(data_dir.specs[t.name], t.version) }

TargetKey(t) == t.dist.v \o <<"-">> \o t.version \o <<"-">> \o t.arch.v

TargetEntry(t, name) ==
    Map((s_provides :> Map((s_dist :> t.dist) @@ (s_version :> Str(t.version))
                           @@ (s_arch :> t.arch)))
        @@ (s_path :> Str(name)))

\* the arches some platform or location document lists, amd64 with x86_64
Listed == WithAmd64(ListedArches(data_dir.platforms) \cup ListedArches(data_dir.locations))

\* the spec document scanned last among those that provide the key of t
LastScanned(t, targets) ==
    data_dir.walk[CHOOSE i \in 1..Len(data_dir.walk) :
           /\ \E u \in targets : u.name = data_dir.walk[i] /\ TargetKey(u) = TargetKey(t)
           /\ \A j \in (i + 1)..Len(data_dir.walk) :
                 ~\E u \in targets : u.name = data_dir.walk[j] /\ TargetKey(u) = TargetKey(t)]

IndexComplete(targets) ==
    \A t \in targets : IndexGet(ret[1], TargetKey(t)) = TargetEntry(t, t.name)

IndexListed(targets, listed) ==
    \A t \in targets :
        IndexGet(ret[1], TargetKey(t)) =
            IF t.arch \in listed THEN TargetEntry(t, LastScanned(t, targets)) ELSE Null

PlaceOf(index, key) ==
    IF \E i \in 1..Len(index.v) : index.v[i].key = key
    THEN CHOOSE i \in 1..Len(index.v) : index.v[i].key = key
    ELSE 0

\* a key dist-version-arch as the catalog orders it: the dist in lower case, the
\* numbers of the version, the arch
StatedKeyParts(key) ==
    LET parts == Split(key, "-")
        nums == Split(parts[2], ".")
    IN  [dist |-> Lowered(parts[1]),
         version |-> [i \in 1..Len(nums) |-> ParseNat(nums[i])],
         arch |-> parts[3]]

\* a sequence of numbers before another: the first number that differs decides, a
\* sequence comes before the ones it begins
RECURSIVE NumsBefore(_, _)
NumsBefore(a, b) ==
    IF a = <<>> THEN b # <<>>
    ELSE IF b = <<>> THEN FALSE
    ELSE IF a[1] # b[1] THEN a[1] < b[1]
    ELSE NumsBefore(Tail(a), Tail(b))

\* key b must not come before key a
StatedAfter(a, b) ==
    LET x == StatedKeyParts(a)
        y == StatedKeyParts(b)
    IN  IF x.dist # y.dist THEN TextLess(y.dist, x.dist)
        ELSE IF x.version # y.version THEN NumsBefore(y.version, x.version)
        ELSE TextLess(y.arch, x.arch)

\* the entry of every target with a listed arch names the spec document scanned last
\* among those that provide its key
LastScannedKept(index, targets, listed) ==
    \A t \in targets : t.arch \in listed =>
       index.v[PlaceOf(index, TargetKey(t))].val.v[s_path] = Str(LastScanned(t, targets))

\* C11: the catalog returned by make_index holds one entry per key, the entry of the
\* spec document scanned last among those that provide the key, and lists its keys in
\* natural order: dist without regard to letter case, the runs of digits of the version
\* as integers (9 before 10), then the arch.
C11_UniqueKeysNaturalOrder ==
    (pc = "indexed" /\ ~IsRaise(ret[1])) =>
        /\ \A i, j \in 1..Len(ret[1].v) : i < j =>
              /\ ret[1].v[i].key # ret[1].v[j].key
              /\ ~StatedAfter(ret[1].v[i].key, ret[1].v[j].key)
        /\ LastScannedKept(ret[1], Targets, Listed)

\* the catalog lists r-9-x86_64 before r-10-x86_64, and two spec documents provide
\* r-9-x86_64: the entry names the one scanned last
C11_Witness ==
    /\ pc = "indexed"
    /\ ~IsRaise(ret[1])
    /\ PlaceOf(ret[1], <<"r", "-", "9", "-">> \o s_x86_64) > 0
    /\ PlaceOf(ret[1], <<"r", "-", "9", "-">> \o s_x86_64)
          < PlaceOf(ret[1], <<"r", "-", "1", "0", "-">> \o s_x86_64)
    /\ Len(data_dir.walk) = 2
    /\ \A n \in DOMAIN data_dir.specs : \E t \in Targets :
          t.name = n /\ TargetKey(t) = <<"r", "-", "9", "-">> \o s_x86_64
    /\ ret[1].v[PlaceOf(ret[1], <<"r", "-", "9", "-">> \o s_x86_64)].val.v[s_path]
          = Str(data_dir.walk[2])


----------------------------------------------------------------------------
(* Loading one document: load_data_file(where, what) on a new OSImager *)

s_type == <<"t", "y", "p", "e">>

s_k == <<"k">>

s_o == <<"o">>

s_hit == <<"h", "i", "t">>

\* the defs sections of the documents A, B and D: none, or one setting some of the keys
\* k and o to the name of the document
DefsOf(name) ==
    {EmptyMap} \cup { s_defs :> Map([key \in keys |-> Str(name)]) : keys \in SUBSET {s_k, s_o} }

\* D including [A, B], each of the three with a defs section of its own or none
IncludeListCases ==
    { [defs |-> EmptyMap,
       docs |-> (<<"A">> :> Map(a)) @@ (<<"B">> :> Map(b))
                @@ (<<"D">> :> Map((s_include :> List(<<Str(<<"A">>), Str(<<"B">>)>>)) @@ d)),
       what |-> <<"D">>] :
        a \in DefsOf(<<"a">>), b \in DefsOf(<<"b">>), d \in DefsOf(<<"d">>) }

\* the other shapes of include: a name, a list of one, an include that includes, a
\* document that is missing, a document that includes itself, a number
IncludeCases ==
    { [defs |-> EmptyMap,
       docs |-> (<<"A">> :> Map(a @@ (s_defs :> Map(s_k :> Str(<<"a">>))))) 
                @@ (<<"B">> :> Map(s_defs :> Map((s_k :> Str(<<"b">>)) @@ (s_o :> Str(<<"b">>)))))
                @@ (<<"D">> :> Map((s_include :> inc) @@ (s_defs :> Map(s_o :> Str(<<"d">>))))),
       what |-> what] :
        a \in {EmptyMap, s_include :> Str(<<"B">>), s_include :> Str(<<"D">>)},
        inc \in {Str(<<"A">>), Str(<<"A", ".", "j", "s", "o", "n">>), List(<<Str(<<"A">>)>>),
                 List(<<Str(<<"B">>), Str(<<"A">>)>>), Str(<<"Z">>), Str(<<"D">>), Num(5),
                 List(<<>>)},
        what \in {<<"D">>, <<"Z">>} }

\* the values of defs[category] and the patterns of the entries matched against them
SpecificValues ==
    { Str(<<"r", "h", "e", "l", "8", "5">>), Str(<<"r", "h", "e", "l", "8">>),
      Str(<<"R", "H", "E", "L", "8">>), Str(<<>>), Null }

SpecificPatterns ==
    { <<"r", "h", "e", "l", "8">>, <<"R", "h", "e", "l", "8">>, <<"r", "h", "e", "l">>,
      <<"h", "e", "l", "8">>, <<"r", "h", "e", "l", "8", ".", "*">>, <<".", "*", "8", "5">>,
      <<"r", "h", "e", "l", "8", "|", "r", "h", "e", "l", "8", "5">> }

\* the defs a value of the category is set by, none for no value
CategoryDefs(cat, value) == IF value = Null THEN EmptyMap ELSE cat :> value

\* a document S with one entry in {category}_specific that sets defs.hit; the value of
\* the category is in defs before the load, or set by the defs section of S
SpecificCases ==
    { [defs |-> IF before THEN CategoryDefs(specifics[c].key, value) ELSE EmptyMap,
       docs |-> <<"S">> :>
                   Map((specifics[c].data_key :>
                           List(<<Map((specifics[c].key :> Str(pattern))
                                      @@ (s_defs :> Map(s_hit :> Str(<<"1">>))))>>))
                       @@ (IF before THEN EmptyMap
                           ELSE s_defs :> Map(CategoryDefs(specifics[c].key, value)))),
       what |-> <<"S">>] :
        c \in 1..Len(specifics), value \in SpecificValues, pattern \in SpecificPatterns,
        before \in BOOLEAN }

\* The context a document M is applied to when earlier documents have been loaded:
\* variables hold j and perhaps k, a Map with a nested Map and a nested List, a List
\* or a text; provisioners and pre_provisioners hold one entry each
BeforeVariables ==
    LET j == <<"j">> :> Str(<<"p">>)
    IN  {j} \cup { (s_k :> v) @@ j :
                     v \in { Map((<<"m">> :> Map(<<"a">> :> Num(1)))
                                 @@ (<<"l">> :> List(<<Num(1)>>))
                                 @@ (<<"p">> :> Str(<<"x">>))),
                             List(<<Str(<<"p">>)>>), Str(<<"s">>) } }

BeforeProvisioners == <<Map(s_type :> Str(<<"p", "1">>))>>

BeforePreProvisioners == <<Map(s_type :> Str(<<"p", "0">>))>>

\* the variables section of M: k a Map with a nested Map and a nested List, a List, a
\* text, an empty Map or absent; j set or not; the inner merge list absent, empty, or
\* naming k, k and j, or a key the section does not have
MergeVariables ==
    { kpart @@ jpart @@ mpart :
        kpart \in {EmptyMap}
                  \cup { s_k :> v :
                           v \in { Map((<<"m">> :> Map(<<"b">> :> Num(2)))
                                       @@ (<<"l">> :> List(<<Num(2)>>))
                                       @@ (<<"q">> :> Str(<<"y">>))),
                                   List(<<Str(<<"n">>)>>), Str(<<"t">>), Map(EmptyMap) } },
        jpart \in {EmptyMap, <<"j">> :> Str(<<"d">>)},
        mpart \in {EmptyMap}
                  \cup { s_merge :> List(names) :
                           names \in { <<>>, <<Str(s_k)>>, <<Str(s_k), Str(<<"j">>)>>,
                                       <<Str(<<"z">>)>> } } }

\* M: a variables section, a method or none, a provisioners list of two, of none, or absent
MergeDocs ==
    { (s_variables :> Map(v)) @@ method @@ list :
        v \in MergeVariables,
        method \in {EmptyMap, s_method :> Str(s_merge),
                    s_method :> Str(<<"r", "e", "p", "l", "a", "c", "e">>)},
        list \in {EmptyMap, s_provisioners :> List(<<>>),
                  s_provisioners :> List(<<Map(s_type :> Str(<<"d", "1">>)),
                                           Map(s_type :> Str(<<"d", "2">>))>>)} }

\* the most entries one {category}_specific list of the precedence scenarios holds
MaxEntries == 2

s_x == <<"x">>

s_y == <<"y">>

\* the sequences of at most n members of a set
RECURSIVE SeqsUpTo(_, _)
SeqsUpTo(S, n) ==
    IF n = 0 THEN {<<>>}
    ELSE SeqsUpTo(S, n - 1) \cup { Append(s, o) : s \in SeqsUpTo(S, n - 1), o \in S }

\* the entries of one category: entry i matches the pattern x or y, sets defs.hit to
\* the letter of the category followed by i, and may set defs[moved] to y
SpecificEntries(cat, moved, opts) ==
    List([i \in 1..Len(opts) |->
            Map((cat :> Str(opts[i].pattern))
                @@ (s_defs :> Map((s_hit :> Str(<<cat[1], <<"1", "2", "3", "4">>[i]>>))
                                  @@ (IF opts[i].moves THEN moved :> Str(s_y)
                                      ELSE EmptyMap))))])

EntryOptions == [pattern : {s_x, s_y}, moves : BOOLEAN]

\* the defs of the context before the document P is applied
PrecedenceDefs == (s_platform :> Str(s_x)) @@ (s_dist :> Str(s_x)) @@ (s_arch :> Str(s_x))

\* P: a plain defs section that sets hit, and perhaps dist; platform entries
\* that may move dist; dist entries that may move dist itself; one arch entry
PrecedenceDocs ==
    { plain
      @@ (s_platform_specific :> SpecificEntries(s_platform, s_dist, p))
      @@ (s_dist_specific :> SpecificEntries(s_dist, s_dist, d))
      @@ (s_arch_specific :> SpecificEntries(s_arch, s_arch, <<[pattern |-> a, moves |-> FALSE]>>)) :
        plain \in { s_defs :> Map(s_hit :> Str(<<"0">>)),
                    s_defs :> Map((s_hit :> Str(<<"0">>)) @@ (s_dist :> Str(s_y))) },
        p \in SeqsUpTo(EntryOptions, MaxEntries),
        d \in SeqsUpTo(EntryOptions, MaxEntries),
        a \in {s_x, s_y} }

LoadCases == IncludeListCases \cup IncludeCases \cup SpecificCases

LoadInit ==
    /\ pc = "load_data_file"
    /\ \/ \E c \in LoadCases :
             /\ self = [init_vars EXCEPT !.defs = c.defs]
             /\ data_dir = [NoData EXCEPT !.platforms = c.docs]
             /\ arg = [where |-> "platforms", what |-> c.what]
       \/ \E before \in BeforeVariables, doc \in MergeDocs :
             /\ self = [init_vars EXCEPT !.variables = before,
                                         !.provisioners = BeforeProvisioners,
                                         !.pre_provisioners = BeforePreProvisioners]
             /\ data_dir = [NoData EXCEPT !.platforms = <<"M">> :> Map(doc)]
             /\ arg = [where |-> "platforms", what |-> <<"M">>]
       \/ \E doc \in PrecedenceDocs :
             /\ self = [init_vars EXCEPT !.defs = PrecedenceDefs]
             /\ data_dir = [NoData EXCEPT !.platforms = <<"P">> :> Map(doc)]
             /\ arg = [where |-> "platforms", what |-> <<"P">>]
    /\ world = NoWorld
    /\ ret = <<>>

\* data = self.load_data_file(where, what)
LoadDataFile ==
    /\ pc = "load_data_file"
    /\ ret' = <<load_data_file(self, arg.where, Str(arg.what), 0)>>
    /\ self' = ret'[1].self
    /\ pc' = IF ret'[1].exc = Null THEN "loaded" ELSE "failed"
    /\ UNCHANGED <<data_dir, world, arg>>

LoadNext == LoadDataFile

SpecLoad == LoadInit /\ [][LoadNext]_vars



----------------------------------------------------------------------------
(* Properties of loading, under SpecLoad *)

\* the document `name` of platforms/ sets the key in a defs section
SetsKey(name, key) ==
    /\ s_defs \in DOMAIN data_dir.platforms[name].v
    /\ key \in DOMAIN data_dir.platforms[name].v[s_defs].v

\* D was loaded, and D includes the list [A, B] of documents without includes
LoadedListOfTwo ==
    /\ pc = "loaded"
    /\ arg.what = <<"D">>
    /\ Get(data_dir.platforms[<<"D">>].v, s_include, Null) = List(<<Str(<<"A">>), Str(<<"B">>)>>)
    /\ \A n \in {<<"A">>, <<"B">>} : s_include \notin DOMAIN data_dir.platforms[n].v

\* the document whose value the composition order gives the key: D, else B, else A
Winner(key) ==
    IF SetsKey(<<"D">>, key) THEN <<"D">>
    ELSE IF SetsKey(<<"B">>, key) THEN <<"B">> ELSE <<"A">>

\* C1: after loading D with include [A, B], every defs key set in more than one of A, B
\* and D has D's value if D sets it, otherwise B's, otherwise A's, whether or not D has
\* a defs section
C1_IncludeOrder ==
    LoadedListOfTwo =>
        \A key \in {s_k, s_o} :
            Cardinality({ n \in {<<"A">>, <<"B">>, <<"D">>} : SetsKey(n, key) }) > 1
            => Get(self.defs, key, Null) = data_dir.platforms[Winner(key)].v[s_defs].v[key]

\* the part of C1 the code keeps: the order holds whenever D has a defs section
C1_IncludeOrderWithDefs ==
    LoadedListOfTwo /\ s_defs \in DOMAIN data_dir.platforms[<<"D">>].v =>
        \A key \in {s_k, s_o} :
            Cardinality({ n \in {<<"A">>, <<"B">>, <<"D">>} : SetsKey(n, key) }) > 1
            => Get(self.defs, key, Null) = data_dir.platforms[Winner(key)].v[s_defs].v[key]

\* the categories for which S carries a {category}_specific list
SpecificOf(doc) == { c \in 1..Len(specifics) : specifics[c].data_key \in DOMAIN doc.v }

\* whether the whole of the value is in the language of the pattern, letter case
\* ignored, for the patterns of SpecificPatterns
StatedFullMatch(pattern, value) ==
    CASE pattern = <<"r", "h", "e", "l", "8", ".", "*">> ->
            StartsWith(Lowered(value), <<"r", "h", "e", "l", "8">>)
      [] pattern = <<".", "*", "8", "5">> -> EndsWith(Lowered(value), <<"8", "5">>)
      [] pattern = <<"r", "h", "e", "l", "8", "|", "r", "h", "e", "l", "8", "5">> ->
            Lowered(value) \in {<<"r", "h", "e", "l", "8">>, <<"r", "h", "e", "l", "8", "5">>}
      [] OTHER -> Lowered(value) = Lowered(pattern)

\* S was loaded: a document with one entry in one {category}_specific list
LoadedSpecific ==
    /\ pc = "loaded"
    /\ arg.what = <<"S">>
    /\ <<"S">> \in DOMAIN data_dir.platforms

EntryApplied == s_hit \in DOMAIN self.defs

EntryShouldApply(cat, entry) ==
    /\ Truthy(Get(self.defs, cat, Null))
    /\ StatedFullMatch(entry.v[cat].v, self.defs[cat].v)

\* C3: the entry of {category}_specific is applied if and only if defs[category] is
\* non-empty and the entry's pattern matches, letter case ignored, the entire value of
\* defs[category]; a pattern matching only a prefix or a substring does not apply it
C3_SpecificFullMatch ==
    LoadedSpecific =>
        \A c \in SpecificOf(data_dir.platforms[<<"S">>]) :
            EntryApplied <=>
                EntryShouldApply(specifics[c].key,
                                 data_dir.platforms[<<"S">>].v[specifics[c].data_key].v[1])

\* an entry whose pattern differs from the value in letter case only was applied
C3_Witness ==
    /\ LoadedSpecific
    /\ EntryApplied
    /\ \E c \in SpecificOf(data_dir.platforms[<<"S">>]) :
          /\ data_dir.platforms[<<"S">>].v[specifics[c].data_key].v[1].v[specifics[c].key]
                = Str(<<"R", "h", "e", "l", "8">>)
          /\ self.defs[specifics[c].key] = Str(<<"R", "H", "E", "L", "8">>)


\* The document M of the merge scenarios, its variables section and its method
MergeDoc == data_dir.platforms[<<"M">>].v

MergeSection == MergeDoc[s_variables].v

MergeMethod == Get(MergeDoc, s_method, Str(s_merge))

\* the step that applies M and returns
MergeApplied ==
    /\ pc = "load_data_file"
    /\ arg.what = <<"M">>
    /\ <<"M">> \in DOMAIN data_dir.platforms
    /\ pc' = "loaded"

\* utils.deep_merge(d1, d2): the recursive union of two dicts, nested lists concatenated
RECURSIVE deep_merge(_, _)
deep_merge(d1, d2) ==
    [key \in DOMAIN d1 \cup DOMAIN d2 |->
        IF key \notin DOMAIN d2 THEN d1[key]
        ELSE IF key \notin DOMAIN d1 THEN d2[key]
        ELSE IF IsMap(d1[key]) /\ IsMap(d2[key]) THEN Map(deep_merge(d1[key].v, d2[key].v))
        ELSE IF IsList(d1[key]) /\ IsList(d2[key]) THEN List(d1[key].v \o d2[key].v)
        ELSE d2[key]]

\* the inner merge list of the variables section names k, which the section and the
\* context both hold, as two Maps or as two Lists
TargetedMergeAsked ==
    /\ s_merge \in DOMAIN MergeSection
    /\ \E i \in 1..Len(MergeSection[s_merge].v) : MergeSection[s_merge].v[i] = Str(s_k)
    /\ s_k \in DOMAIN MergeSection
    /\ s_k \in DOMAIN self.variables
    /\ \/ IsMap(self.variables[s_k]) /\ IsMap(MergeSection[s_k])
       \/ IsList(self.variables[s_k]) /\ IsList(MergeSection[s_k])

\* C16: when the variables section of a document carries an inner merge list naming k,
\* after the apply the context's k is the deep merge of its previous value with the
\* document's value (nested maps unioned key by key, nested lists concatenated, keys
\* only in the previous value retained; two lists concatenated), it is not overwritten
\* by the shallow merge of the rest of the section, and merge is not stored.
C16_TargetedDeepMerge ==
    [][(MergeApplied /\ TargetedMergeAsked)
       => /\ self'.variables[s_k]
               = deep_merge(s_k :> self.variables[s_k], s_k :> MergeSection[s_k])[s_k]
          /\ s_merge \notin DOMAIN self'.variables]_vars

\* the list attributes of the context and the Map attributes
ListSections == { i \in 1..Len(sections) : sections[i].list }

\* C17: a document whose method is not "merge" leaves in each list section it has
\* exactly its own entries; list sections it does not have are unchanged and Map
\* sections keep every key they had; with method "merge" or none the document's
\* entries follow the existing ones.
C17_MethodClearsLists ==
    [][MergeApplied
       => /\ \A i \in ListSections :
               self'[sections[i].attr] =
                  IF sections[i].key \notin DOMAIN MergeDoc THEN self[sections[i].attr]
                  ELSE IF MergeMethod # Str(s_merge) THEN MergeDoc[sections[i].key].v
                  ELSE self[sections[i].attr] \o MergeDoc[sections[i].key].v
          /\ \A i \in (1..Len(sections)) \ ListSections :
               \A key \in DOMAIN self[sections[i].attr] :
                  /\ key \in DOMAIN self'[sections[i].attr]
                  /\ (sections[i].key \notin DOMAIN MergeDoc
                      \/ key \notin DOMAIN MergeDoc[sections[i].key].v)
                     => self'[sections[i].attr][key] = self[sections[i].attr][key]]_vars

\* M with method "replace" and two provisioners has been applied: the provisioners are
\* those two, pre_provisioners is as before, variables still holds j
C17_Witness ==
    /\ pc = "loaded"
    /\ arg.what = <<"M">>
    /\ <<"M">> \in DOMAIN data_dir.platforms
    /\ MergeMethod = Str(<<"r", "e", "p", "l", "a", "c", "e">>)
    /\ s_provisioners \in DOMAIN MergeDoc
    /\ Len(MergeDoc[s_provisioners].v) = 2
    /\ self.provisioners = MergeDoc[s_provisioners].v
    /\ self.pre_provisioners = BeforePreProvisioners
    /\ <<"j">> \in DOMAIN self.variables

\* The document P of the precedence scenarios
PrecedenceDoc == data_dir.platforms[<<"P">>].v

\* the categories in the order stated, and the entries of P in that order: those of
\* platform first, each list in its own order
StatedCategories == <<s_platform, s_location, s_dist, s_version, s_arch, s_firmware>>

StatedEntries ==
    Flatten([c \in 1..Len(StatedCategories) |->
        LET cat == StatedCategories[c]
            key == cat \o <<"_", "s", "p", "e", "c", "i", "f", "i", "c">>
        IN  IF key \notin DOMAIN PrecedenceDoc THEN <<>>
            ELSE [i \in 1..Len(PrecedenceDoc[key].v) |->
                     [cat |-> cat, pattern |-> PrecedenceDoc[key].v[i].v[cat].v,
                      defs |-> PrecedenceDoc[key].v[i].v[s_defs].v]]])

\* defs after the entries from place i, each applied when its pattern is the value its
\* category had when the first entry of the category was reached
RECURSIVE StatedDefs(_, _, _, _, _)
StatedDefs(defs, entries, i, cat, name) ==
    IF i > Len(entries) THEN defs
    ELSE LET e == entries[i]
             tested == IF e.cat = cat THEN name ELSE defs[e.cat].v
         IN  StatedDefs(IF Lowered(e.pattern) = Lowered(tested) THEN Update(defs, e.defs) ELSE defs,
                        entries, i + 1, e.cat, tested)

\* C18: one apply of a document applies its plain sections first, then its _specific
\* entries category by category in the order platform, location, dist, version, arch,
\* firmware and in list order within a category; a defs key set by the plain defs and
\* by several matching entries ends with the value of the last matching entry, and the
\* patterns of a category are tested against defs[category] as the plain sections and
\* the entries of earlier categories left it.
C18_PrecedenceInOneApply ==
    (pc = "loaded" /\ arg.what = <<"P">> /\ <<"P">> \in DOMAIN data_dir.platforms)
    => self.defs = StatedDefs(Update(PrecedenceDefs,
                                     IF s_defs \in DOMAIN PrecedenceDoc
                                     THEN PrecedenceDoc[s_defs].v ELSE EmptyMap),
                              StatedEntries, 1, <<>>, <<>>)

\* P has been applied: its plain defs set hit, its first platform entry matched and
\* moved dist to y, its two dist entries have the pattern y, and hit is that of the
\* second one, the arch entry not matching
C18_Witness ==
    /\ pc = "loaded"
    /\ arg.what = <<"P">>
    /\ <<"P">> \in DOMAIN data_dir.platforms
    /\ s_defs \in DOMAIN PrecedenceDoc
    /\ PrecedenceDoc[s_defs].v = s_hit :> Str(<<"0">>)
    /\ Len(PrecedenceDoc[s_platform_specific].v) = 1
    /\ PrecedenceDoc[s_platform_specific].v[1].v[s_platform] = Str(s_x)
    /\ s_dist \in DOMAIN PrecedenceDoc[s_platform_specific].v[1].v[s_defs].v
    /\ Len(PrecedenceDoc[s_dist_specific].v) = 2
    /\ \A i \in 1..2 : PrecedenceDoc[s_dist_specific].v[i].v[s_dist] = Str(s_y)
    /\ PrecedenceDoc[s_arch_specific].v[1].v[s_arch] = Str(s_y)
    /\ self.defs[s_hit] = Str(<<"d", "2">>)
    /\ self.defs[s_dist] = Str(s_y)

----------------------------------------------------------------------------
(* Composing a build: make_build(target, name, ip), src/lib/osimager/core.py *)

s_ANSIBLE_RETRY_FILES_ENABLED ==
    <<"A", "N", "S", "I", "B", "L", "E", "_", "R", "E", "T", "R", "Y", "_", "F", "I", "L",
      "E", "S", "_", "E", "N", "A", "B", "L", "E", "D">>

s_ANSIBLE_WARNINGS ==
    <<"A", "N", "S", "I", "B", "L", "E", "_", "W", "A", "R", "N", "I", "N", "G", "S">>

s_ANSIBLE_NOCOWS == <<"A", "N", "S", "I", "B", "L", "E", "_", "N", "O", "C", "O", "W", "S">>

s_ANSIBLE_DISPLAY_SKIPPED_HOSTS ==
    <<"A", "N", "S", "I", "B", "L", "E", "_", "D", "I", "S", "P", "L", "A", "Y", "_", "S",
      "K", "I", "P", "P", "E", "D", "_", "H", "O", "S", "T", "S">>

s_ANSIBLE_STDOUT_CALLBACK ==
    <<"A", "N", "S", "I", "B", "L", "E", "_", "S", "T", "D", "O", "U", "T", "_", "C", "A",
      "L", "L", "B", "A", "C", "K">>

s_False == <<"F", "a", "l", "s", "e">>

s_minimal == <<"m", "i", "n", "i", "m", "a", "l">>

s_install_path == <<"i", "n", "s", "t", "a", "l", "l", "_", "p", "a", "t", "h">>

s_ansible == <<"a", "n", "s", "i", "b", "l", "e">>

s_playbook_file == <<"p", "l", "a", "y", "b", "o", "o", "k", "_", "f", "i", "l", "e">>

s_extra_arguments ==
    <<"e", "x", "t", "r", "a", "_", "a", "r", "g", "u", "m", "e", "n", "t", "s">>

s_playbook_marker ==
    <<">", ">", "a", "n", "s", "i", "b", "l", "e", "_", "p", "l", "a", "y", "b", "o", "o",
      "k", "<", "<">>

s_extra_args_marker ==
    <<"[", ">", "a", "n", "s", "i", "b", "l", "e", "_", "e", "x", "t", "r", "a", "_", "a",
      "r", "g", "s", "<", "]">>

s_extra_vars_flag == <<"-", "-", "e", "x", "t", "r", "a", "-", "v", "a", "r", "s">>

s_extra_vars ==
    <<"p", "l", "a", "t", "f", "o", "r", "m", "=", "{", "{", "u", "s", "e", "r", " ", "\f",
      "p", "l", "a", "t", "f", "o", "r", "m", "-", "n", "a", "m", "e", "\f", "}", "}", " ",
      "l", "o", "c", "a", "t", "i", "o", "n", "_", "n", "a", "m", "e", "=", "{", "{", "u",
      "s", "e", "r", " ", "\f", "l", "o", "c", "a", "t", "i", "o", "n", "-", "n", "a", "m",
      "e", "\f", "}", "}", " ", "s", "p", "e", "c", "_", "n", "a", "m", "e", "=", "{", "{",
      "u", "s", "e", "r", " ", "\f", "s", "p", "e", "c", "-", "n", "a", "m", "e", "\f",
      "}", "}", " ", "s", "p", "e", "c", "_", "c", "o", "n", "f", "i", "g", "=", "{", "{",
      "u", "s", "e", "r", " ", "\f", "s", "p", "e", "c", "-", "c", "o", "n", "f", "i", "g",
      "\f", "}", "}", " ", "i", "n", "s", "t", "a", "l", "l", "_", "d", "i", "r", "=",
      "\"", ">", ">", "i", "n", "s", "t", "a", "l", "l", "_", "p", "a", "t", "h", "<", "<",
      "\"", " ", "{", "{", "u", "s", "e", "r", " ", "\f", "a", "n", "s", "i", "b", "l",
      "e", "-", "o", "p", "t", "s", "\f", "}", "}", " ", ">", ">", "a", "n", "s", "i", "b",
      "l", "e", "_", "e", "x", "t", "r", "a", "_", "v", "a", "r", "s", "<", "<">>

s_ansible_playbook ==
    <<"a", "n", "s", "i", "b", "l", "e", "_", "p", "l", "a", "y", "b", "o", "o", "k">>

s_platform_name == <<"p", "l", "a", "t", "f", "o", "r", "m", "_", "n", "a", "m", "e">>

s_platform_type == <<"p", "l", "a", "t", "f", "o", "r", "m", "_", "t", "y", "p", "e">>

s_location_name == <<"l", "o", "c", "a", "t", "i", "o", "n", "_", "n", "a", "m", "e">>

s_spec_name == <<"s", "p", "e", "c", "_", "n", "a", "m", "e">>

s_venv == <<"v", "e", "n", "v">>

s_bin == <<"b", "i", "n">>

s_PATH == <<"P", "A", "T", "H">>

s_platforms == <<"p", "l", "a", "t", "f", "o", "r", "m", "s">>

s_locations == <<"l", "o", "c", "a", "t", "i", "o", "n", "s">>

\* os.path.join(a, b)
PathJoin(a, b) ==
    IF StartsWith(b, <<"/">>) THEN b
    ELSE IF a = <<>> \/ EndsWith(a, <<"/">>) THEN a \o b
    ELSE a \o <<"/">> \o b

RECURSIVE PathJoinAll(_, _)
PathJoinAll(a, paths) ==
    IF paths = <<>> THEN a ELSE PathJoinAll(PathJoin(a, Head(paths)), Tail(paths))

\* get_path(what, *paths): the setting, under base_path unless it is absolute
get_path(imager, what, paths) ==
    PathJoinAll(IF what = "base_dir" \/ StartsWith(imager.settings[what], <<"/">>)
                THEN imager.settings[what]
                ELSE PathJoin(imager.base_path, imager.settings[what]),
                paths)

\* what make_build has reached: the object, the local variables, and the exception
\* (or sys.exit) that ended it, Null while it runs
Frame(imager, locals, exc) == [self |-> imager, locals |-> locals, exc |-> exc]

\* the next statements of make_build, unless an exception has ended it
Then(s, Statements(_)) == IF s.exc # Null THEN s ELSE Statements(s)

\* tuple = target.split('/') and the names taken from it
platform_name(locals) == Split(locals.target, "/")[1]

location_name(locals) == Split(locals.target, "/")[2]

spec_name(locals) == Split(locals.target, "/")[3]

\* instance_name = name or spec_name
instance_name(locals) == IF Truthy(locals.name) THEN locals.name.v ELSE spec_name(locals)

\* the environment variables make_build pre-defines
DefaultEvars ==
    (s_ANSIBLE_RETRY_FILES_ENABLED :> Str(s_False)) @@ (s_ANSIBLE_WARNINGS :> Str(s_False))
    @@ (s_ANSIBLE_NOCOWS :> Str(<<"1">>)) @@ (s_ANSIBLE_DISPLAY_SKIPPED_HOSTS :> Str(s_False))
    @@ (s_ANSIBLE_STDOUT_CALLBACK :> Str(s_minimal))

\* the default provisioner
DefaultProvisioners ==
    << Map((s_type :> Str(s_ansible)) @@ (s_playbook_file :> Str(s_playbook_marker))
           @@ (s_extra_arguments :>
                  List(<<Str(s_extra_args_marker), Str(s_extra_vars_flag), Str(s_extra_vars)>>))) >>

\* a .get(key, default) on an entry of the index, or on the whole index when the spec
\* name is empty
EntryGet(index_entry, key, default) ==
    IF IsMap(index_entry) THEN Get(index_entry.v, key, default)
    ELSE IF \E i \in 1..Len(index_entry.v) : index_entry.v[i].key = key
    THEN IndexGet(index_entry, key)
    ELSE default

EntryTruthy(index_entry) ==
    IF index_entry.t = "dict" THEN index_entry.v # <<>> ELSE Truthy(index_entry)

\* defs dist, version and arch from the entry, the evars, install_path, the default
\* provisioner and the playbook
TargetDefaults(imager, provides) ==
    IF ~IsMap(provides) THEN [self |-> imager, exc |-> Raise("AttributeError")]
    ELSE [self |-> [imager EXCEPT
                      !.defs = (s_dist :> Get(provides.v, s_dist, Str(<<>>)))
                               @@ (s_version :> Get(provides.v, s_version, Str(<<>>)))
                               @@ (s_arch :> Get(provides.v, s_arch, Str(<<>>)))
                               @@ (s_install_path :> Str(get_path(imager, "install_dir", <<>>)))
                               @@ (s_ansible_playbook :> Str(imager.settings.ansible_playbook))
                               @@ @,
                      !.evars = DefaultEvars,
                      !.provisioners = DefaultProvisioners],
          exc |-> Null]

\* make_build after index_entry = self.get_index(spec_name)
Indexed(imager, locals, index_entry) ==
    IF IsRaise(index_entry) THEN Frame(imager, locals, index_entry)
    ELSE IF ~EntryTruthy(index_entry) THEN Frame(imager, locals, Raise("SystemExit"))
    ELSE Frame(TargetDefaults(imager, EntryGet(index_entry, s_provides, Map(EmptyMap))).self,
               [locals EXCEPT !.index_entry = index_entry],
               TargetDefaults(imager, EntryGet(index_entry, s_provides, Map(EmptyMap))).exc)

\* defs as the documents find it when nothing names the target in it
NoTargetNames(defs, locals) == defs

\* self.defs['platform'] = platform_name and self.defs['location'] = location_name
TargetNames(defs, locals) ==
    (s_platform :> Str(platform_name(locals))) @@ (s_location :> Str(location_name(locals)))
    @@ defs

\* make_build up to the default provisioner: the target split, defs platform and
\* location, the index entry of the spec, the defaults
Targeted(imager, locals) ==
    IF Len(Split(locals.target, "/")) < 3 THEN Frame(imager, locals, Raise("ValueError"))
    ELSE Indexed([imager EXCEPT !.defs = TargetNames(@, locals)],
                 locals, get_index(spec_name(locals)))


\* x in container, for a text x
PyIn(x, container) ==
    CASE IsList(container) -> Bool(\E i \in 1..Len(container.v) : container.v[i] = Str(x))
      [] IsStr(container) -> Bool(Contains(container.v, x))
      [] IsMap(container) -> Bool(x \in DOMAIN container.v)
      [] OTHER -> Raise("TypeError")

\* self.platform = self.load_data_file("platforms", platform_name), then defs
\* platform_name and platform_type
PlatformLoaded(locals, r) ==
    IF r.exc # Null THEN Frame(r.self, locals, r.exc)
    ELSE Frame([r.self EXCEPT
                  !.platform = r.data,
                  !.defs = (s_platform_name :> Str(platform_name(locals)))
                           @@ (s_platform_type :>
                                  Get(r.self.config, s_type, Str(platform_name(locals))))
                           @@ @],
               locals, Null)

load_platform(s) ==
    PlatformLoaded(s.locals,
                   load_data_file(s.self, "platforms", Str(platform_name(s.locals)), 0))

\* self.location = self.load_data_file("locations", location_name), then defs
\* location_name
LocationLoaded(locals, r) ==
    IF r.exc # Null THEN Frame(r.self, locals, r.exc)
    ELSE Frame([r.self EXCEPT
                  !.location = r.data,
                  !.defs = (s_location_name :> Str(location_name(locals))) @@ @],
               locals, Null)

load_location(s) ==
    LocationLoaded(s.locals,
                   load_data_file(s.self, "locations", Str(location_name(s.locals)), 0))

\* no document refuses a name
NeverUnsupported(doc, key, name) == Bool(FALSE)

\* key in doc and name not in doc[key]
Unsupported(doc, key, name) ==
    IF ~IsMap(doc) THEN Raise("TypeError")
    ELSE IF key \notin DOMAIN doc.v THEN Bool(FALSE)
    ELSE IF IsRaise(PyIn(name, doc.v[key])) THEN PyIn(name, doc.v[key])
    ELSE Bool(~PyIn(name, doc.v[key]).v)

\* raise Exception(...) when the document does not support the name
Checked(s, unsupported) ==
    IF IsRaise(unsupported) THEN Frame(s.self, s.locals, unsupported)
    ELSE IF unsupported.v THEN Frame(s.self, s.locals, Raise("Exception"))
    ELSE s

\* the checks after the spec is loaded: the location supports the platform, the spec
\* supports the platform and the location
LocationSupports(s) ==
    Checked(s, Unsupported(s.self.location, s_platforms, platform_name(s.locals)))

SpecSupportsPlatform(s) ==
    Checked(s, Unsupported(s.self.spec, s_platforms, platform_name(s.locals)))

SpecSupportsLocation(s) ==
    Checked(s, Unsupported(s.self.spec, s_locations, location_name(s.locals)))

\* venv = self.spec.get("venv"): the bin directory of the venv goes first in PATH
VenvPath(s) ==
    IF ~IsMap(s.self.spec) THEN Frame(s.self, s.locals, Raise("AttributeError"))
    ELSE IF ~Truthy(Get(s.self.spec.v, s_venv, Null)) THEN s
    ELSE IF ~IsStr(s.self.spec.v[s_venv]) THEN Frame(s.self, s.locals, Raise("TypeError"))
    ELSE Frame([s.self EXCEPT
                  !.evars = Put(@, s_PATH,
                                Str(get_path(s.self, "venv_dir", <<s.self.spec.v[s_venv].v, s_bin>>)
                                    \o <<":">> \o Get(world.environ, s_PATH, <<>>)))],
               s.locals, Null)

\* self.spec = self.load_file('specs', spec_path), then defs spec_name
SpecLoaded(locals, r) ==
    IF r.exc # Null THEN Frame(r.self, locals, r.exc)
    ELSE Frame([r.self EXCEPT !.spec = r.data,
                              !.defs = (s_spec_name :> Str(spec_name(locals))) @@ @],
               locals, Null)

SpecAt(s, spec_path) ==
    IF ~IsStr(spec_path) THEN Frame(s.self, s.locals, Raise("TypeError"))
    ELSE SpecLoaded(s.locals, load_file(s.self, "specs", spec_path.v, 0))

\* make_build from spec_path = index_entry.get('path') to the checks of what the
\* location and the spec support
load_spec(s) ==
    Then(Then(Then(Then(SpecAt(s, EntryGet(s.locals.index_entry, s_path, Map(EmptyMap))),
                        VenvPath),
                   LocationSupports),
              SpecSupportsPlatform),
         SpecSupportsLocation)

s_boot == <<"b", "o", "o", "t">>

s_boot_command == <<"b", "o", "o", "t", "_", "c", "o", "m", "m", "a", "n", "d">>

s_boot_wait == <<"b", "o", "o", "t", "_", "w", "a", "i", "t">>

s_shutcmd == <<"s", "h", "u", "t", "c", "m", "d">>

s_shutdown_command ==
    <<"s", "h", "u", "t", "d", "o", "w", "n", "_", "c", "o", "m", "m", "a", "n", "d">>

s_base_path == <<"b", "a", "s", "e", "_", "p", "a", "t", "h">>

s_data_path == <<"d", "a", "t", "a", "_", "p", "a", "t", "h">>

s_temp_dir == <<"t", "e", "m", "p", "_", "d", "i", "r">>

s_tmpdir == <<"t", "m", "p", "d", "i", "r">>

s_spec_dir == <<"s", "p", "e", "c", "_", "d", "i", "r">>

s_major == <<"m", "a", "j", "o", "r">>

s_minor == <<"m", "i", "n", "o", "r">>

s_specs == <<"s", "p", "e", "c", "s">>

s_platform_name_ == <<"p", "l", "a", "t", "f", "o", "r", "m", "-", "n", "a", "m", "e">>

s_location_name_ == <<"l", "o", "c", "a", "t", "i", "o", "n", "-", "n", "a", "m", "e">>

s_spec_name_ == <<"s", "p", "e", "c", "-", "n", "a", "m", "e">>

s_spec_config_ == <<"s", "p", "e", "c", "-", "c", "o", "n", "f", "i", "g">>

s_spec_config == <<"s", "p", "e", "c", "_", "c", "o", "n", "f", "i", "g">>

s_spec_yml == <<"t", "a", "s", "k", "s", "/", "s", "p", "e", "c", ".", "y", "m", "l">>

s_mkdtemp == <<"/", "t", "m", "p", "/", "t">>

\* make_build from self.config['name'] = spec_name to the update of variables: the
\* parts of the spec name, boot and shutcmd, the temporary directory, the defs and the
\* variables of every build
Pruned(config, defs) ==
    LET booted == IF Truthy(Get(defs, s_boot, Bool(TRUE))) THEN config
                  ELSE Pop(Pop(config, s_boot_command), s_boot_wait)
    IN  IF Truthy(Get(defs, s_shutcmd, Bool(TRUE))) THEN booted
        ELSE Pop(booted, s_shutdown_command)

\* self.temp_dir: the directory of --temp-dir, or a new one
TempDir(imager) ==
    IF imager.user_temp_dir # Null /\ imager.user_temp_dir # <<>> THEN imager.user_temp_dir
    ELSE s_mkdtemp

\* major and minor of a version
Major(version) == Split(version, ".")[1]

Minor(version) == IF Len(Split(version, ".")) > 1 THEN Split(version, ".")[2] ELSE <<>>

\* the version that major and minor are taken from: parts[1] or "0.0"
VersionOr(part) == IF part = <<>> THEN <<"0", ".", "0">> ELSE part

NamedDefs(imager, locals, parts) ==
    (s_base_path :> Str(imager.settings.base_dir))
    @@ (s_data_path :> Str(imager.base_path))
    @@ (s_temp_dir :> Str(TempDir(imager)))
    @@ (s_tmpdir :> Str(TempDir(imager)))
    @@ (s_spec_dir :> Str(PathJoinAll(get_path(imager, "data_dir", <<>>),
                                      <<s_specs, locals.index_entry.v[s_path].v>>)))
    @@ (s_dist :> Str(parts[1]))
    @@ (s_version :> Str(parts[2]))
    @@ (s_major :> Str(Major(VersionOr(parts[2]))))
    @@ (s_minor :> Str(Minor(VersionOr(parts[2]))))
    @@ (s_arch :> Str(parts[3]))

NamedVariables(imager, locals) ==
    (s_platform_name_ :> Str(platform_name(locals)))
    @@ (s_location_name_ :> Str(location_name(locals)))
    @@ (s_spec_name_ :> Str(spec_name(locals)))
    @@ (s_spec_config_ :> Get(imager.defs, s_spec_config, Str(s_spec_yml)))

Named(s) ==
    IF Len(Split(spec_name(s.locals), "-")) < 3
    THEN Frame([s.self EXCEPT !.config = Put(@, s_name, Str(spec_name(s.locals)))],
               s.locals, Raise("IndexError"))
    ELSE Frame([s.self EXCEPT
                  !.config = Pruned(Put(@, s_name, Str(spec_name(s.locals))), s.self.defs),
                  !.temp_dir = TempDir(s.self),
                  !.defs = NamedDefs(s.self, s.locals, Split(spec_name(s.locals), "-")) @@ @,
                  !.variables = NamedVariables(s.self, s.locals) @@ @],
               s.locals, Null)

s_dns == <<"d", "n", "s">>

s_search == <<"s", "e", "a", "r", "c", "h">>

s_servers == <<"s", "e", "r", "v", "e", "r", "s">>

s_dns_search == <<"d", "n", "s", "_", "s", "e", "a", "r", "c", "h">>

s_ntp == <<"n", "t", "p">>

s_fqdn == <<"f", "q", "d", "n">>

s_domain == <<"d", "o", "m", "a", "i", "n">>

s_cidr == <<"c", "i", "d", "r">>

s_subnet == <<"s", "u", "b", "n", "e", "t">>

s_prefix == <<"p", "r", "e", "f", "i", "x">>

s_gateway == <<"g", "a", "t", "e", "w", "a", "y">>

s_gw == <<"g", "w">>

s_netmask == <<"n", "e", "t", "m", "a", "s", "k">>

s_ip == <<"i", "p">>

\* the four octets of an IPv4 address in dotted decimal, <<>> for any other text
IsOctet(s) == IsDigits(s) /\ Len(s) <= 3 /\ ParseNat(s) <= 255 /\ (Len(s) = 1 \/ s[1] # "0")

ParseIPv4(s) ==
    LET o == Split(s, ".")
    IN  IF Len(o) = 4 /\ \A i \in 1..4 : IsOctet(o[i])
        THEN [i \in 1..4 |-> ParseNat(o[i])]
        ELSE <<>>

DottedQuad(o) ==
    NatStr(o[1]) \o <<".">> \o NatStr(o[2]) \o <<".">> \o NatStr(o[3]) \o <<".">> \o NatStr(o[4])

\* how many of the low `bits` bits of an address fall in octet i
OctetBits(bits, i) ==
    IF bits - 8 * (4 - i) < 0 THEN 0
    ELSE IF bits - 8 * (4 - i) > 8 THEN 8
    ELSE bits - 8 * (4 - i)

\* str(ipaddress.IPv4Network(f"{subnet}/{prefix}")[-2]), for a prefix written as a
\* number of bits: the address before the last one of the network
NetworkGateway(subnet, prefix) ==
    IF \/ ParseIPv4(subnet) = <<>>
       \/ ~IsDigits(prefix) \/ Len(prefix) > 2 \/ ParseNat(prefix) > 32
       \/ \E i \in 1..4 : ParseIPv4(subnet)[i] % (2 ^ OctetBits(32 - ParseNat(prefix), i)) # 0
    THEN Raise("ValueError")
    ELSE IF ParseNat(prefix) = 32 THEN Raise("IndexError")
    ELSE Str(DottedQuad([i \in 1..4 |->
                ParseIPv4(subnet)[i] + 2 ^ OctetBits(32 - ParseNat(prefix), i) - 1
                - (IF i = 4 THEN 1 ELSE 0)]))

\* prefix_to_netmask(prefix), for a prefix written in decimal digits
prefix_to_netmask(prefix) ==
    IF ~IsDigits(prefix) \/ ParseNat(prefix) > 32 THEN Raise("ValueError")
    ELSE Str(DottedQuad([i \in 1..4 |-> 256 - 2 ^ OctetBits(32 - ParseNat(prefix), i)]))

\* defs[f"{prefix}{i}"] = server for the servers counted from 1
Enumerated(defs, prefix, servers) ==
    [k \in { prefix \o NatStr(i) : i \in 1..Len(servers) } |->
        servers[CHOOSE i \in 1..Len(servers) : prefix \o NatStr(i) = k]] @@ defs

\* dns = self.defs.get("dns", {}): defs dns_search and dns1, dns2, ...
DnsServers(s, dns) ==
    IF ~IsIterable(Get(dns.v, s_servers, List(<<>>)))
    THEN Frame(s.self, s.locals, Raise("TypeError"))
    ELSE Frame([s.self EXCEPT !.defs = Enumerated(@, s_dns, Iterate(Get(dns.v, s_servers, List(<<>>))))],
               s.locals, Null)

DnsSearch(s, dns, search) ==
    IF ~IsIterable(search) \/ \E i \in 1..Len(Iterate(search)) : ~IsStr(Iterate(search)[i])
    THEN Frame(s.self, s.locals, Raise("TypeError"))
    ELSE DnsServers(Frame([s.self EXCEPT
                             !.defs = Put(@, s_dns_search,
                                          Str(Join([i \in 1..Len(Iterate(search)) |->
                                                       Iterate(search)[i].v], <<" ">>)))],
                          s.locals, Null),
                    dns)

DnsDefs(s) ==
    IF ~IsMap(Get(s.self.defs, s_dns, Map(EmptyMap)))
    THEN Frame(s.self, s.locals, Raise("AttributeError"))
    ELSE DnsSearch(s, Get(s.self.defs, s_dns, Map(EmptyMap)),
                   Get(Get(s.self.defs, s_dns, Map(EmptyMap)).v, s_search, List(<<>>)))

\* ntp = self.defs.get("ntp", {}): defs ntp1, ntp2, ...
NtpDefs(s) ==
    IF ~IsMap(Get(s.self.defs, s_ntp, Map(EmptyMap)))
    THEN Frame(s.self, s.locals, Raise("AttributeError"))
    ELSE IF ~IsIterable(Get(Get(s.self.defs, s_ntp, Map(EmptyMap)).v, s_servers, List(<<>>)))
    THEN Frame(s.self, s.locals, Raise("TypeError"))
    ELSE Frame([s.self EXCEPT
                  !.defs = Enumerated(@, s_ntp,
                                      Iterate(Get(Get(s.self.defs, s_ntp, Map(EmptyMap)).v,
                                                  s_servers, List(<<>>))))],
               s.locals, Null)

\* defs name and fqdn, variables name and fqdn
Fqdn(imager, locals) ==
    IF imager.fqdn # <<>> THEN Str(imager.fqdn)
    ELSE IF Truthy(locals.name) /\ Contains(locals.name.v, <<".">>) THEN locals.name
    ELSE IF ~IsStr(Get(imager.defs, s_domain, Str(<<>>))) THEN Raise("TypeError")
    ELSE Str(instance_name(locals) \o <<".">> \o Get(imager.defs, s_domain, Str(<<>>)).v)

NameDefs(s) ==
    IF IsRaise(Fqdn(s.self, s.locals))
    THEN Frame([s.self EXCEPT !.defs = Put(@, s_name, Str(instance_name(s.locals)))],
               s.locals, Fqdn(s.self, s.locals))
    ELSE Frame([s.self EXCEPT
                  !.defs = (s_name :> Str(instance_name(s.locals)))
                           @@ (s_fqdn :> Fqdn(s.self, s.locals)) @@ @,
                  !.variables = (s_name :> Str(instance_name(s.locals)))
                                @@ (s_fqdn :> Fqdn(s.self, s.locals)) @@ @],
               [s.locals EXCEPT !.fqdn = Fqdn(s.self, s.locals)], Null)


\* gateway = self.defs.get("gateway", ""), worked out from subnet and prefix when it
\* is not set; defs gateway and gw, and netmask from the prefix when it is not set
Netmask(s, prefix) ==
    IF Truthy(Get(s.self.defs, s_netmask, Null)) \/ prefix = <<>> THEN s
    ELSE IF IsRaise(prefix_to_netmask(prefix))
    THEN Frame(s.self, s.locals, prefix_to_netmask(prefix))
    ELSE Frame([s.self EXCEPT !.defs = Put(@, s_netmask, prefix_to_netmask(prefix))],
               s.locals, Null)

GatewaySet(s, prefix, gateway) ==
    IF IsRaise(gateway) THEN Frame(s.self, s.locals, gateway)
    ELSE Netmask(Frame([s.self EXCEPT !.defs = (s_gateway :> gateway) @@ (s_gw :> gateway) @@ @],
                       s.locals, Null),
                 prefix)

Gateway(s, subnet, prefix) ==
    GatewaySet(s, prefix,
               IF ~Truthy(Get(s.self.defs, s_gateway, Str(<<>>))) /\ subnet # <<>> /\ prefix # <<>>
               THEN NetworkGateway(subnet, prefix)
               ELSE Get(s.self.defs, s_gateway, Str(<<>>)))

\* cidr = self.defs.get("cidr", "/"): defs subnet and prefix when it holds a "/"
CidrDefs(s) ==
    LET cidr == Get(s.self.defs, s_cidr, Str(<<"/">>))
    IN  IF IsRaise(PyIn(<<"/">>, cidr)) THEN Frame(s.self, s.locals, PyIn(<<"/">>, cidr))
        ELSE IF ~PyIn(<<"/">>, cidr).v THEN Gateway(s, <<>>, <<>>)
        ELSE IF ~IsStr(cidr) THEN Frame(s.self, s.locals, Raise("AttributeError"))
        ELSE IF Len(Split(cidr.v, "/")) # 2 THEN Frame(s.self, s.locals, Raise("ValueError"))
        ELSE Gateway(Frame([s.self EXCEPT
                              !.defs = (s_subnet :> Str(Split(cidr.v, "/")[1]))
                                       @@ (s_prefix :> Str(Split(cidr.v, "/")[2])) @@ @],
                           s.locals, Null),
                     Split(cidr.v, "/")[1], Split(cidr.v, "/")[2])

\* ip = get_ip(fqdn, ...) unless make_build was given one; defs ip
IpOf(s) ==
    IF Truthy(s.locals.ip) THEN s.locals.ip
    ELSE IF ~IsMap(Get(s.self.location.v, s_defs, Map(EmptyMap)))
    THEN Raise("AttributeError")
    ELSE IF ~IsMap(Get(Get(s.self.location.v, s_defs, Map(EmptyMap)).v, s_dns, Map(EmptyMap)))
    THEN Raise("AttributeError")
    ELSE IF get_ip(s.locals.fqdn) = Null THEN Str(<<>>)
    ELSE get_ip(s.locals.fqdn)

IpDefs(s) ==
    IF IsRaise(IpOf(s)) THEN Frame(s.self, s.locals, IpOf(s))
    ELSE Frame([s.self EXCEPT !.defs = Put(@, s_ip, IpOf(s))],
               [s.locals EXCEPT !.ip = IpOf(s)], Null)

s_urls == <<"u", "r", "l", "s">>

s_local_only == <<"l", "o", "c", "a", "l", "_", "o", "n", "l", "y">>

s_url == <<"u", "r", "l">>

s_iso_name == <<"i", "s", "o", "_", "n", "a", "m", "e">>

s_iso_path == <<"i", "s", "o", "_", "p", "a", "t", "h">>

s_iso_urls == <<"i", "s", "o", "_", "u", "r", "l", "s">>

s_iso_file == <<"i", "s", "o", "_", "f", "i", "l", "e">>

s_iso_checksum == <<"i", "s", "o", "_", "c", "h", "e", "c", "k", "s", "u", "m">>

s_none == <<"n", "o", "n", "e">>

s_iso_url == <<"i", "s", "o", "_", "u", "r", "l">>

s_checksum == <<"c", "h", "e", "c", "k", "s", "u", "m">>

s_vault_addr == <<"v", "a", "u", "l", "t", "_", "a", "d", "d", "r">>

s_vault_token == <<"v", "a", "u", "l", "t", "_", "t", "o", "k", "e", "n">>

s_addr == <<"a", "d", "d", "r">>

s_token == <<"t", "o", "k", "e", "n">>

s_vault_call == <<"v", "a", "u", "l", "t", " ", "\f">>

\* a --define list "key=value,key=value": defs[key.strip()] = value.strip() for each
\* pair, from pair i
RECURSIVE Defined(_, _, _)
Defined(s, deflist, i) ==
    IF i > Len(deflist) THEN s
    ELSE IF ~Contains(deflist[i], <<"=">>) THEN Frame(s.self, s.locals, Raise("ValueError"))
    ELSE IF \/ Find(deflist[i], <<"=">>, 1) = 1
            \/ Find(deflist[i], <<"=">>, 1) = Len(deflist[i])
    THEN Frame(s.self, s.locals, Raise("SystemExit"))
    ELSE Defined(Frame([s.self EXCEPT
                          !.defs = Put(@, Strip(SubSeq(deflist[i], 1, Find(deflist[i], <<"=">>, 1) - 1)),
                                       Str(Strip(Drop(deflist[i], Find(deflist[i], <<"=">>, 1) + 1))))],
                       s.locals, Null),
                 deflist, i + 1)

UserDefines(s) ==
    IF s.self.user_defines = Null \/ s.self.user_defines = <<>> THEN s
    ELSE Defined(s, Split(s.self.user_defines, ","), 1)

\* os.path.dirname(path)
dirname(path) ==
    LET parts == Split(path, "/")
        head == SubSeq(path, 1, Len(path) - Len(parts[Len(parts)]))
    IN  IF \A i \in 1..Len(head) : head[i] = "/" THEN head ELSE RStrip(head, {"/"})

\* urlparse(url).path for a URL scheme://host/path?query#fragment, or a bare path
UrlPath(url) ==
    LET cut(t, c) == IF Contains(t, <<c>>) THEN SubSeq(t, 1, Find(t, <<c>>, 1) - 1) ELSE t
        plain == cut(cut(url, "#"), "?")
        i == Find(plain, <<":", "/", "/">>, 1)
        rest == Drop(plain, i + 3)
    IN  IF i = 0 THEN plain
        ELSE IF Contains(rest, <<"/">>) THEN Drop(rest, Find(rest, <<"/">>, 1))
        ELSE <<>>

\* get_filename_from_url(url), for a URL without percent escapes
get_filename_from_url(url) == Replace(basename(UrlPath(url)), <<" ">>, <<"-">>)


\* get_iso_file(urls): the first entry with a url names the ISO; `for entry in urls`
\* from entry i
RECURSIVE IsoEntries(_, _, _)
IsoFound(s, iso_url) ==
    Frame([s.self EXCEPT
             !.config = Pop(@, s_iso_urls),
             !.defs = IF StartsWith(iso_url, <<"/">>)
                      THEN (s_iso_path :> Str(dirname(iso_url) \o <<"/">>))
                           @@ (s_iso_file :> Str(dirname(iso_url) \o <<"/">>))
                           @@ (s_iso_name :> Str(basename(iso_url)))
                           @@ (s_iso_checksum :> Str(s_none)) @@ @
                      ELSE (s_iso_file :> Str(PathJoin(s.self.settings.packer_cache_dir,
                                                       get_filename_from_url(iso_url))))
                           @@ (s_iso_name :> Str(get_filename_from_url(iso_url)))
                           @@ (s_iso_checksum :> Str(s_none)) @@ @],
          s.locals, Null)

IsoEntries(s, urls, i) ==
    IF i > Len(urls) THEN s
    ELSE IF ~IsMap(urls[i]) THEN Frame(s.self, s.locals, Raise("AttributeError"))
    ELSE IF ~Truthy(Get(urls[i].v, s_url, Null)) THEN IsoEntries(s, urls, i + 1)
    ELSE IF ~IsStr(urls[i].v[s_url]) THEN Frame(s.self, s.locals, Raise("AttributeError"))
    ELSE IsoFound(s, urls[i].v[s_url].v)

get_iso_file(s, urls) ==
    IF IsRaise(urls) THEN Frame(s.self, s.locals, urls)
    ELSE IF ~IsList(urls) THEN Frame(s.self, s.locals, Raise("SystemExit"))
    ELSE IsoEntries(s, urls.v, 1)

\* check_url(url): the URL answers
check_url(url) == IsStr(url) /\ url.v \in DOMAIN world.urls

\* line.split()[0]
FirstWord(line) ==
    LET t == LStrip(line, WhiteChars)
        ends == { j \in 1..Len(t) : t[j] \in WhiteChars }
    IN  IF ends = {} THEN t ELSE SubSeq(t, 1, (CHOOSE j \in ends : \A h \in ends : j <= h) - 1)

\* get_checksum(sum_url, iso_url): the first word of the first line of the text at
\* sum_url that names the ISO, None when no line does
get_checksum(sum_url, iso_url) ==
    LET lines == SplitLines(world.urls[sum_url])
        hits == { i \in 1..Len(lines) : Contains(lines[i], get_filename_from_url(iso_url)) }
        first == CHOOSE i \in hits : \A h \in hits : i <= h
    IN  IF hits = {} THEN Null
        ELSE IF Strip(lines[first]) = <<>> THEN Raise("IndexError")
        ELSE Str(FirstWord(lines[first]))

\* check_iso_urls(urls): the first entry whose url answers, with the checksum listed
\* for it; `for entry in urls` from entry i
RECURSIVE UrlEntries(_, _, _)
UrlFound(s, iso_url, checksum) ==
    IF IsRaise(checksum) THEN Frame(s.self, s.locals, checksum)
    ELSE Frame([s.self EXCEPT
                  !.defs = (s_iso_name :> Str(get_filename_from_url(iso_url.v)))
                           @@ (s_iso_url :> iso_url)
                           @@ (s_iso_checksum :> IF Truthy(checksum) THEN checksum ELSE Str(s_none))
                           @@ @],
               s.locals, Null)

UrlEntries(s, urls, i) ==
    IF i > Len(urls) THEN s
    ELSE IF ~IsMap(urls[i]) THEN Frame(s.self, s.locals, Raise("AttributeError"))
    ELSE IF \/ ~Truthy(Get(urls[i].v, s_url, Null))
            \/ ~check_url(urls[i].v[s_url])
    THEN UrlEntries(s, urls, i + 1)
    ELSE IF ~Truthy(Get(urls[i].v, s_checksum, Null))
    THEN UrlFound(s, urls[i].v[s_url], Null)
    ELSE IF ~check_url(urls[i].v[s_checksum]) THEN UrlEntries(s, urls, i + 1)
    ELSE UrlFound(s, urls[i].v[s_url], get_checksum(urls[i].v[s_checksum].v, urls[i].v[s_url].v))

check_iso_urls(s, urls) ==
    IF IsRaise(urls) THEN Frame(s.self, s.locals, urls)
    ELSE IF ~IsList(urls) THEN Frame(s.self, s.locals, Raise("SystemExit"))
    ELSE UrlEntries(s, urls.v, 1)

\* urls = self.defs.get("urls", []): the ISO from the local files, or from the URLs
\* that answer when defs.local_only is false
IsoDefs(s) ==
    IF Truthy(Get(s.self.defs, s_local_only, Bool(TRUE)))
    THEN get_iso_file(s, do_sub(Get(s.self.defs, s_urls, List(<<>>)), s.self))
    ELSE check_iso_urls(s, do_sub(Get(s.self.defs, s_urls, List(<<>>)), s.self))

\* iso_name from defs.iso_url when it is not set
IsoName(s) ==
    IF \/ ~Truthy(Get(s.self.defs, s_iso_url, Null))
       \/ Truthy(Get(s.self.defs, s_iso_name, Null))
    THEN s
    ELSE IF ~IsStr(s.self.defs[s_iso_url]) THEN Frame(s.self, s.locals, Raise("AttributeError"))
    ELSE Frame([s.self EXCEPT
                  !.defs = Put(@, s_iso_name,
                               Str(IF StartsWith(s.self.defs[s_iso_url].v, <<"/">>)
                                   THEN basename(s.self.defs[s_iso_url].v)
                                   ELSE get_filename_from_url(s.self.defs[s_iso_url].v)))],
               s.locals, Null)

s_RES_OPTIONS == <<"R", "E", "S", "_", "O", "P", "T", "I", "O", "N", "S">>

s_nameserver ==
    <<"n", "a", "m", "e", "s", "e", "r", "v", "e", "r", " ", ">", ">", "d", "n", "s", "1",
      "<", "<">>

s_builders == <<"b", "u", "i", "l", "d", "e", "r", "s">>

\* load_vault_config, `for line in f` from line i: the addr and the token of the
\* lines key=value, a ValueError for a line without "="
RECURSIVE VaultLines(_, _, _, _)
VaultLines(lines, i, vault_addr, vault_token) ==
    IF i > Len(lines) THEN [addr |-> vault_addr, token |-> vault_token, exc |-> Null]
    ELSE IF Strip(lines[i]) = <<>> \/ StartsWith(Strip(lines[i]), <<"#">>)
    THEN VaultLines(lines, i + 1, vault_addr, vault_token)
    ELSE IF ~Contains(lines[i], <<"=">>)
    THEN [addr |-> vault_addr, token |-> vault_token, exc |-> Raise("ValueError")]
    ELSE LET line == Strip(lines[i])
             key == SubSeq(line, 1, Find(line, <<"=">>, 1) - 1)
             value == Strip(Drop(line, Find(line, <<"=">>, 1) + 1))
         IN  VaultLines(lines, i + 1,
                        IF key = s_addr THEN value ELSE vault_addr,
                        IF key = s_token THEN value ELSE vault_token)

\* load_vault_config once the lines are read: [self, error, exc], error what the
\* function returns
VaultConfigured(imager, cfg) ==
    IF cfg.exc # Null THEN [self |-> imager, error |-> Null, exc |-> cfg.exc]
    ELSE IF cfg.addr = <<>> \/ cfg.token = <<>>
    THEN [self |-> imager, error |-> Bool(TRUE), exc |-> Null]
    ELSE [self |-> [imager EXCEPT
                      !.vault = Map((s_addr :> Str(cfg.addr)) @@ (s_token :> Str(cfg.token))),
                      !.defs = IF world.authenticated = "yes"
                               THEN (s_vault_addr :> Str(cfg.addr))
                                    @@ (s_vault_token :> Str(cfg.token)) @@ @
                               ELSE @],
          error |-> CASE world.authenticated = "yes" -> Bool(FALSE)
                      [] world.authenticated = "no" -> Null
                      [] OTHER -> Bool(TRUE),
          exc |-> Null]

load_vault_config(imager) ==
    IF world.vaultconfig = Null THEN [self |-> imager, error |-> Bool(TRUE), exc |-> Null]
    ELSE VaultConfigured(imager, VaultLines(SplitLines(world.vaultconfig.v), 1, <<>>, <<>>))

\* text in json.dumps(x), for a text without a quote, a backslash or a character json
\* escapes: some key or some string of x holds it
RECURSIVE HoldsText(_, _)
HoldsText(x, text) ==
    CASE IsStr(x) -> Contains(x.v, text)
      [] IsList(x) -> \E i \in 1..Len(x.v) : HoldsText(x.v[i], text)
      [] IsMap(x) -> \E k \in DOMAIN x.v : Contains(k, text) \/ HoldsText(x.v[k], text)
      [] OTHER -> FALSE

\* vault_error = self.load_vault_config(): the program ends when the documents call
\* the vault and there is none; then defs platform_type
VaultChecked(s, r) ==
    IF r.exc # Null THEN Frame(r.self, s.locals, r.exc)
    ELSE IF /\ Truthy(r.error)
            /\ HoldsText(List(<<s.self.platform, s.self.location, s.self.spec>>), s_vault_call)
    THEN Frame(r.self, s.locals, Raise("SystemExit"))
    ELSE Frame([r.self EXCEPT
                  !.defs = Put(@, s_platform_type,
                               Get(r.self.config, s_type, Str(platform_name(s.locals))))],
               s.locals, Null)

VaultCheck(s) == VaultChecked(s, load_vault_config(s.self))

\* make_build from self.config['name'] = spec_name to the second defs platform_type
defaults(s) ==
    Then(Then(Then(Then(Then(Then(Then(Then(Then(Named(s), DnsDefs), NtpDefs), NameDefs),
                                   CidrDefs),
                              IpDefs),
                         UserDefines),
                    IsoDefs),
               IsoName),
         VaultCheck)


\* the substitution pass of make_build: defs resolved against the defs as they were,
\* then evars, variables, the provisioners, the files of the spec and config against
\* the resolved defs
DefsResolved(s, r) ==
    IF IsRaise(r) THEN Frame(s.self, s.locals, r)
    ELSE Frame([s.self EXCEPT !.defs = r.v], s.locals, Null)

ResolveDefs(s) == DefsResolved(s, do_sub(Map(s.self.defs), s.self))

EvarsResolved(s, r) ==
    IF IsRaise(r)
    THEN Frame([s.self EXCEPT !.evars = Put(@, s_RES_OPTIONS, Str(s_nameserver))], s.locals, r)
    ELSE Frame([s.self EXCEPT !.evars = r.v], s.locals, Null)

ResolveEvars(s) ==
    EvarsResolved(s, do_sub(Map(Put(s.self.evars, s_RES_OPTIONS, Str(s_nameserver))), s.self))

VariablesResolved(s, r) ==
    IF IsRaise(r) THEN Frame(s.self, s.locals, r)
    ELSE Frame([s.self EXCEPT !.variables = r.v], s.locals, Null)

ResolveVariables(s) == VariablesResolved(s, do_sub(Map(s.self.variables), s.self))

\* provisioners.extend(do_sub(...)) for the three lists in turn
ProvisionersResolved(s, pre, main, post) ==
    IF FirstRaise(<<pre, main, post>>) # Null
    THEN Frame(s.self, s.locals, FirstRaise(<<pre, main, post>>))
    ELSE Frame(s.self, [s.locals EXCEPT !.provisioners = List(pre.v \o main.v \o post.v)], Null)

ResolveProvisioners(s) ==
    ProvisionersResolved(s, do_sub(List(s.self.pre_provisioners), s.self),
                         do_sub(List(s.self.provisioners), s.self),
                         do_sub(List(s.self.post_provisioners), s.self))

FilesResolved(s, r) ==
    IF IsRaise(r) THEN Frame(s.self, s.locals, r)
    ELSE Frame([s.self EXCEPT !.spec = Map(Put(@.v, s_files, r))], s.locals, Null)

ResolveFiles(s) ==
    FilesResolved(s, do_sub(Get(s.self.spec.v, s_files, List(<<>>)), s.self))

\* config resolved, its empty strings removed, and the build put together
ConfigResolved(s, r) ==
    IF IsRaise(r) THEN Frame(s.self, s.locals, r)
    ELSE Frame([s.self EXCEPT
                  !.config = [k \in { j \in DOMAIN r.v : r.v[j] # Str(<<>>) } |-> r.v[k]],
                  !.build = Map((s_variables :> Map(s.self.variables))
                                @@ (s_provisioners :> s.locals.provisioners)
                                @@ (s_builders :>
                                       List(<<Map([k \in { j \in DOMAIN r.v : r.v[j] # Str(<<>>) }
                                                     |-> r.v[k]])>>)))],
               s.locals,
               IF s.self.dump_defs \/ s.self.dump_build THEN Raise("SystemExit") ELSE Null)

ResolveConfig(s) == ConfigResolved(s, do_sub(Map(s.self.config), s.self))

substitute(s) ==
    Then(Then(Then(Then(Then(ResolveDefs(s), ResolveEvars), ResolveVariables),
                   ResolveProvisioners),
              ResolveFiles),
         ResolveConfig)

s_vmware == <<"v", "m", "w", "a", "r", "e">>

s_kvm == <<"k", "v", "m">>

s_lab == <<"l", "a", "b">>

s_target_spec == <<"r", "-", "9", "-", "x", "8", "6", "_", "6", "4">>

s_a == <<"a">>

s_b == <<"b">>

s_c == <<"c">>

s_v == <<"v">>

s_e == <<"e">>

s_inline == <<"i", "n", "l", "i", "n", "e">>

s_shell == <<"s", "h", "e", "l", "l">>

s_sources == <<"s", "o", "u", "r", "c", "e", "s">>

s_dest == <<"d", "e", "s", "t">>

s_VAULT_TOKEN == <<"V", "A", "U", "L", "T", "_", "T", "O", "K", "E", "N">>

s_VAULT_ADDR == <<"V", "A", "U", "L", "T", "_", "A", "D", "D", "R">>

s_dot_json == <<".", "j", "s", "o", "n">>

s_build == <<"b", "u", "i", "l", "d">>

s_slash_tmp == <<"/", "t", "m", "p">>

s_activate == <<"a", "c", "t", "i", "v", "a", "t", "e">>

----------------------------------------------------------------------------
(* Writing what was built: gen_files and run_packer.  world.fs holds the files by
   path: a text file as a Str, a JSON file as the value its text encodes.  The
   directories of the paths written are taken to exist. *)

\* what gen_files has reached: the files, and the exception that ended it
Wrote(fs, exc) == [fs |-> fs, exc |-> exc]

\* gen_files, `for source_file_spec in sources` from source i, `data` read so far:
\* the content of the sources, one after the other
RECURSIVE SourcesRead(_, _, _, _, _)
SourceRead(imager, fs, sources, i, data, source_file) ==
    IF IsRaise(source_file) THEN source_file
    ELSE IF ~IsStr(source_file) THEN Raise("TypeError")
    ELSE IF PathJoin(PathJoin(get_path(imager, "data_dir", <<>>), s_files), source_file.v)
               \notin DOMAIN fs
    THEN Raise("SystemExit")
    ELSE SourcesRead(imager, fs, sources, i + 1,
                     data \o fs[PathJoin(PathJoin(get_path(imager, "data_dir", <<>>), s_files),
                                         source_file.v)].v)

SourcesRead(imager, fs, sources, i, data) ==
    IF i > Len(sources) THEN Str(data)
    ELSE IF ~IsStr(sources[i]) THEN Raise("TypeError")
    ELSE SourceRead(imager, fs, sources, i, data, do_substr(sources[i].v, imager))

\* gen_files, the write of one file: open(dest_path, 'w') empties the file before
\* f.write(data) takes the data
FileWritten(imager, fs, data, dest_file) ==
    IF IsRaise(dest_file) THEN Wrote(fs, dest_file)
    ELSE IF ~IsStr(dest_file) \/ ~IsStr(Get(imager.defs, s_temp_dir, Str(s_slash_tmp)))
    THEN Wrote(fs, Raise("TypeError"))
    ELSE IF ~IsStr(data)
    THEN Wrote(Put(fs, PathJoin(Get(imager.defs, s_temp_dir, Str(s_slash_tmp)).v, dest_file.v),
                   Str(<<>>)),
               Raise("TypeError"))
    ELSE Wrote(Put(fs, PathJoin(Get(imager.defs, s_temp_dir, Str(s_slash_tmp)).v, dest_file.v),
                   data),
               Null)

\* gen_files, `for file in files` from file i
RECURSIVE GenFiles(_, _, _, _)
FileDone(imager, files, i, w) ==
    IF w.exc # Null THEN w ELSE GenFiles(imager, w.fs, files, i + 1)

\* data = do_substr(data, self); if not data: return
FileResolved(imager, fs, files, i, data) ==
    IF IsRaise(data) THEN Wrote(fs, data)
    ELSE IF ~Truthy(data) THEN Wrote(fs, Null)
    ELSE IF ~Truthy(Get(files[i].v, s_dest, Null)) THEN GenFiles(imager, fs, files, i + 1)
    ELSE IF ~IsStr(files[i].v[s_dest]) THEN Wrote(fs, Raise("TypeError"))
    ELSE FileDone(imager, files, i,
                  FileWritten(imager, fs, data, do_substr(files[i].v[s_dest].v, imager)))

FileRead(imager, fs, files, i, read) ==
    IF IsRaise(read) THEN Wrote(fs, read)
    ELSE FileResolved(imager, fs, files, i, do_substr(read.v, imager))

GenFiles(imager, fs, files, i) ==
    IF i > Len(files) THEN Wrote(fs, Null)
    ELSE IF ~IsMap(files[i]) THEN GenFiles(imager, fs, files, i + 1)
    ELSE IF ~IsIterable(Get(files[i].v, s_sources, List(<<>>)))
    THEN Wrote(fs, Raise("TypeError"))
    ELSE FileRead(imager, fs, files, i,
                  SourcesRead(imager, fs, Iterate(Get(files[i].v, s_sources, List(<<>>))), 1, <<>>))

\* files = do_sub(self.files, self)
FilesSubstituted(imager, fs, files) ==
    IF IsRaise(files) THEN Wrote(fs, files) ELSE GenFiles(imager, fs, files.v, 1)

gen_files(imager, fs) == FilesSubstituted(imager, fs, do_sub(List(imager.files), imager))

\* run_packer, the output file: json.dump(self.build) to {tmpdir}/{name}.json
OutputFile(imager) ==
    IF \/ ~IsStr(Get(imager.defs, s_tmpdir, Str(s_slash_tmp)))
       \/ ~IsStr(Get(imager.defs, s_name, Str(s_build)))
    THEN Raise("TypeError")
    ELSE Str(PathJoin(Get(imager.defs, s_tmpdir, Str(s_slash_tmp)).v,
                      Get(imager.defs, s_name, Str(s_build)).v \o s_dot_json))

\* run_packer, os.environ[evar] = val for the evars, then the token and the address
\* of the vault.  An evar that is not a text ends run_packer; the evars set before it
\* are not kept here.
PackerEnviron(imager, environ) ==
    IF \E k \in DOMAIN imager.evars : ~IsStr(imager.evars[k]) THEN Raise("TypeError")
    ELSE IF ~Truthy(Get(imager.defs, s_vault_token, Null))
    THEN Map([k \in DOMAIN imager.evars |-> imager.evars[k].v] @@ environ)
    ELSE IF ~IsStr(imager.defs[s_vault_token]) \/ ~IsStr(Get(imager.defs, s_vault_addr, Null))
    THEN Raise("TypeError")
    ELSE Map((s_VAULT_TOKEN :> imager.defs[s_vault_token].v)
             @@ (s_VAULT_ADDR :> imager.defs[s_vault_addr].v)
             @@ [k \in DOMAIN imager.evars |-> imager.evars[k].v] @@ environ)

\* run_packer, the venv of the spec: its activator has to be a file
VenvMissing(imager, fs) ==
    /\ Truthy(Get(imager.spec.v, s_venv, Null))
    /\ \/ ~IsStr(imager.spec.v[s_venv])
       \/ get_path(imager, "venv_dir", <<imager.spec.v[s_venv].v, s_bin \o <<"/">> \o s_activate>>)
             \notin DOMAIN fs

\* shutil.rmtree(self.temp_dir): the files that are left
Removed(fs, dir) ==
    [p \in { q \in DOMAIN fs : ~StartsWith(q, dir \o <<"/">>) } |-> fs[p]]

----------------------------------------------------------------------------
(* A build: make_build(target) on a new OSImager over a data directory *)

\* the OSImager after __init__ with the default settings and no options
NewImager ==
    init_vars @@ [ settings |-> init_settings,
                   base_path |-> init_settings.base_dir,
                   user_temp_dir |-> Null,
                   user_defines |-> Null,
                   temp_dir |-> Null,
                   build |-> Null,
                   dump_defs |-> FALSE,
                   dump_build |-> FALSE,
                   keep |-> FALSE ]

\* the longest chain of defs that name other defs
MaxChain == 2

\* a marker >>key<<, the whole of a text or inside one
Marker(key, whole) ==
    IF whole THEN <<">", ">">> \o key \o <<"<", "<">>
    ELSE <<"p">> \o <<">", ">">> \o key \o <<"<", "<">>

\* defs a, b, ...: each names the next, the last of the chain is a literal
ChainKeys == <<s_a, s_b, s_c, <<"d">>, <<"f">>, <<"g">>>>

ChainDefs(depth, whole) ==
    [k \in { ChainKeys[i] : i \in 1..(depth + 1) } |->
        IF k = ChainKeys[depth + 1] THEN Str(<<"x">>)
        ELSE Str(Marker(ChainKeys[(CHOOSE i \in 1..depth : ChainKeys[i] = k) + 1], whole))]

\* the platform documents: both set defs.firmware to bios
BuildPlatforms ==
    (s_vmware :> Map((s_arches :> List(<<Str(s_x86_64)>>))
                     @@ (s_defs :> Map(s_firmware :> Str(<<"b", "i", "o", "s">>)))
                     @@ (s_config :> Map(s_type :> Str(<<"v", "s">>)))))
    @@ (s_kvm :> Map((s_arches :> List(<<Str(s_x86_64)>>))
                     @@ (s_defs :> Map(s_firmware :> Str(<<"b", "i", "o", "s">>)))))

\* the patterns of the platform_specific entry of the location document
PlatformPatterns ==
    { s_vmware, <<"V", "M", "w", "a", "r", "e">>, <<"v", "m", ".", "*">>, s_kvm, <<"v", "m", "w">> }

\* the location document: a platform_specific entry that sets defs.firmware to efi;
\* `over` holds the keys of the document a case sets otherwise
BuildLocations(pattern, over) ==
    s_lab :> Map(over
                 @@ (s_platform_specific :>
                        List(<<Map((s_platform :> Str(pattern))
                                   @@ (s_defs :> Map(s_firmware :> Str(<<"e", "f", "i">>))))>>))
                 @@ (s_defs :> Map(s_domain :> Str(<<"d">>)))
                 @@ (s_platforms :> List(<<Str(s_vmware), Str(s_kvm), Str(<<"a", "w", "s">>)>>)))

\* the spec document: a chain of defs, and a variable, a config value and a
\* provisioner that name the first of the chain; `over` holds the keys of the document
\* a case sets otherwise
BuildSpecs(depth, whole, over) ==
    <<"r">> :> Map(over
                   @@ (s_provides :> Map((s_dist :> Str(<<"r">>)) @@ (s_versions :> Str(<<"9">>))
                                      @@ (s_arches :> List(<<Str(s_x86_64)>>))))
                   @@ (s_defs :> Map(ChainDefs(depth, whole)))
                   @@ (s_variables :> Map(s_v :> Str(Marker(s_a, whole))))
                   @@ (s_config :> Map((s_c :> Str(Marker(s_a, whole))) @@ (s_e :> Str(<<>>))))
                   @@ (s_pre_provisioners :>
                          List(<<Map((s_type :> Str(s_shell))
                                     @@ (s_inline :> List(<<Str(Marker(s_a, whole))>>)))>>))
                   @@ (s_platforms :> List(<<Str(s_vmware), Str(s_kvm)>>)))

\* the targets: two that build, and one that fails at each step of make_build
BuildTargets ==
    { s_vmware \o <<"/">> \o s_lab \o <<"/">> \o s_target_spec,
      s_kvm \o <<"/">> \o s_lab \o <<"/">> \o s_target_spec,
      s_vmware \o <<"/">> \o s_lab,
      s_vmware \o <<"/">> \o s_lab \o <<"/", "r", "-", "8", "-">> \o s_x86_64,
      <<"n", "o">> \o <<"/">> \o s_lab \o <<"/">> \o s_target_spec,
      s_vmware \o <<"/", "n", "o", "/">> \o s_target_spec,
      <<"a", "w", "s">> \o <<"/">> \o s_lab \o <<"/">> \o s_target_spec }

\* the builds that succeed
GoodTargets ==
    { s_vmware \o <<"/">> \o s_lab \o <<"/">> \o s_target_spec,
      s_kvm \o <<"/">> \o s_lab \o <<"/">> \o s_target_spec }

\* a list of names
Names(names) == List([i \in 1..Len(names) |-> Str(names[i])])

\* what a case sets otherwise in the location document and in the spec document: a
\* document that does not list the platform or the location of the target
Unlisted ==
    { [location |-> s_platforms :> Names(<<s_kvm>>), spec |-> EmptyMap],
      [location |-> EmptyMap, spec |-> s_platforms :> Names(<<s_kvm>>)],
      [location |-> EmptyMap, spec |-> s_locations :> Names(<<(<<"d", "c">>)>>)],
      [location |-> EmptyMap, spec |-> s_locations :> Names(<<s_lab>>)] }

\* outside the program: the name of the build resolves, and no vault is configured
BuildWorld ==
    [NoWorld EXCEPT !.dns = (s_target_spec \o <<".", "d">>)
                               :> <<"1", "0", ".", "0", ".", "0", ".", "7">>]

\* a .vaultconfig and a vault that holds the secret m/p
VaultWorld ==
    [BuildWorld EXCEPT
        !.vaultconfig = Str(<<"a", "d", "d", "r", "=", "h", "\n",
                              "t", "o", "k", "e", "n", "=", "t", "\n">>),
        !.authenticated = "yes",
        !.secrets = <<"m", "/", "p">> :> (<<"k">> :> Str(<<"s">>))]

\* a .vaultconfig without a token
HalfVaultWorld ==
    [BuildWorld EXCEPT !.vaultconfig = Str(<<"a", "d", "d", "r", "=", "h", "\n">>)]

\* the texts that ask for the secret k of m/p: a marker of the vault family, whole and
\* inside a text, a marker of a hash family, and the vault function of a packer template
SecretTexts ==
    { <<"|", ">", "m", "/", "p", ":", "k", "<", "|">>,
      <<"x", "|", ">", "m", "/", "p", ":", "k", "<", "|">>,
      <<"1", ">", "m", "/", "p", ":", "k", "<", "1">>,
      <<"{", "{">> \o s_vault_call \o <<"m", "/", "p", "\f", " ", "\f", "k", "\f", "}", "}">> }

\* the most entries the files list of a spec document holds
MaxFiles == 2

\* a source file of the data directory
SourcePath(name) == PathJoin(PathJoin(get_path(NewImager, "data_dir", <<>>), s_files), name)

\* the source files: a with a marker, b of one line, e empty; there is no file m
FilesWorld ==
    [BuildWorld EXCEPT
        !.fs = (SourcePath(<<"a">>) :> Str(<<"A", ">", ">", "n", "a", "m", "e", "<", "<">>))
               @@ (SourcePath(<<"b">>) :> Str(<<"B", "\n">>))
               @@ (SourcePath(<<"e">>) :> Str(<<>>))]

FileEntry(sources, dest) ==
    Map((s_sources :> List([i \in 1..Len(sources) |-> Str(sources[i])]))
        @@ (IF dest = <<>> THEN EmptyMap ELSE s_dest :> Str(dest)))

\* the entries of a files list: one source, an empty source, two sources, no
\* destination, a source that is missing, a destination with a marker
FileEntries ==
    { FileEntry(<<(<<"a">>)>>, <<"o", "1">>),
      FileEntry(<<(<<"e">>)>>, <<"o", "2">>),
      FileEntry(<<(<<"a">>), (<<"b">>)>>, <<"o", "3">>),
      FileEntry(<<(<<"a">>)>>, <<>>),
      FileEntry(<<(<<"m">>)>>, <<"o", "4">>),
      FileEntry(<<(<<"b">>)>>, <<">", ">", "n", "a", "m", "e", "<", "<", ".", "c">>) }

\* a build of `target` by a new OSImager over a data directory
BuildCase(defines, pattern, depth, whole, target, over, outside) ==
    /\ self = [NewImager EXCEPT !.user_defines = defines]
    /\ data_dir = [NoData EXCEPT !.platforms = BuildPlatforms,
                                 !.locations = BuildLocations(pattern, over.location),
                                 !.specs = BuildSpecs(depth, whole, over.spec),
                                 !.walk = <<(<<"r">>)>>]
    /\ arg = [target |-> target, name |-> Null, ip |-> Str(<<>>),
              index_entry |-> Null, fqdn |-> Null, provisioners |-> Null]
    /\ world = outside

\* the cases: every target over every pattern and chain; the good targets over the
\* documents that list other platforms and locations; a spec document that asks for a
\* secret, with and without a vault; a spec document with a files list
BuildInit ==
    /\ pc = "make_build"
    /\ \/ \E defines \in {Null, <<"k", "=", "1">>, <<"k">>}, pattern \in PlatformPatterns,
             depth \in 0..MaxChain, whole \in BOOLEAN, target \in BuildTargets :
               BuildCase(defines, pattern, depth, whole, target,
                         [location |-> EmptyMap, spec |-> EmptyMap], BuildWorld)
       \/ \E target \in GoodTargets, over \in Unlisted :
               BuildCase(Null, s_vmware, 0, TRUE, target, over, BuildWorld)
       \/ \E text \in SecretTexts, outside \in {BuildWorld, VaultWorld, HalfVaultWorld} :
               BuildCase(Null, s_vmware, 0, TRUE, s_kvm \o <<"/">> \o s_lab \o <<"/">> \o s_target_spec,
                         [location |-> EmptyMap,
                          spec |-> s_variables :> Map(s_v :> Str(text))],
                         outside)
       \/ \E entries \in SeqsUpTo(FileEntries, MaxFiles) :
               BuildCase(Null, s_vmware, 0, TRUE, s_kvm \o <<"/">> \o s_lab \o <<"/">> \o s_target_spec,
                         [location |-> EmptyMap, spec |-> s_files :> List(entries)],
                         FilesWorld)
    /\ ret = <<>>

\* make_build goes on to `next`, or ends with the exception
Stepped(s, next) ==
    /\ self' = s.self
    /\ arg' = s.locals
    /\ pc' = IF s.exc = Null THEN next ELSE "failed"
    /\ ret' = IF s.exc = Null THEN ret ELSE <<s.exc>>

\* make_build up to the default provisioner; get_index saves index.json when it
\* builds the index and settings.save_index is set
MbTarget ==
    /\ pc = "make_build"
    /\ Stepped(Targeted(self, arg), "load_platform")
    /\ data_dir' = IF /\ self.settings.save_index
                      /\ data_dir.index = Null
                      /\ Len(Split(arg.target, "/")) >= 3
                      /\ ~IsRaise(make_index(data_dir.walk))
                   THEN [data_dir EXCEPT !.index = make_index(data_dir.walk)]
                   ELSE data_dir
    /\ UNCHANGED world

MbPlatform ==
    /\ pc = "load_platform"
    /\ Stepped(load_platform(Frame(self, arg, Null)), "load_location")
    /\ UNCHANGED <<data_dir, world>>

MbLocation ==
    /\ pc = "load_location"
    /\ Stepped(load_location(Frame(self, arg, Null)), "load_spec")
    /\ UNCHANGED <<data_dir, world>>

MbSpec ==
    /\ pc = "load_spec"
    /\ Stepped(load_spec(Frame(self, arg, Null)), "defaults")
    /\ UNCHANGED <<data_dir, world>>

MbDefaults ==
    /\ pc = "defaults"
    /\ Stepped(defaults(Frame(self, arg, Null)), "substitute")
    /\ UNCHANGED <<data_dir, world>>

\* the substitution pass; make_build returns self.build
Built(s) ==
    /\ self' = s.self
    /\ arg' = s.locals
    /\ pc' = IF s.exc = Null THEN "built" ELSE "failed"
    /\ ret' = <<IF s.exc = Null THEN s.self.build ELSE s.exc>>

MbSubstitute ==
    /\ pc = "substitute"
    /\ Built(substitute(Frame(self, arg, Null)))
    /\ UNCHANGED <<data_dir, world>>

\* run_packer, self.gen_files()
Generated(w) ==
    /\ world' = [world EXCEPT !.fs = w.fs]
    /\ pc' = IF w.exc = Null THEN "generated" ELSE "failed"
    /\ ret' = IF w.exc = Null THEN ret ELSE <<w.exc>>

RpGenFiles ==
    /\ pc = "built"
    /\ Generated(gen_files(self, world.fs))
    /\ UNCHANGED <<self, arg, data_dir>>

\* run_packer from the output file to the packer command: the manifest is written,
\* the environment set, the venv of the spec looked for
RpOutput ==
    /\ pc = "generated"
    /\ world' = [world EXCEPT
                    !.fs = IF IsRaise(OutputFile(self)) THEN @
                           ELSE Put(@, OutputFile(self).v, self.build),
                    !.environ = IF IsRaise(OutputFile(self)) \/ IsRaise(PackerEnviron(self, @))
                                THEN @ ELSE PackerEnviron(self, @).v]
    /\ pc' = IF \/ IsRaise(OutputFile(self)) \/ IsRaise(PackerEnviron(self, world.environ))
                \/ VenvMissing(self, world.fs)
             THEN "failed" ELSE "written"
    /\ ret' = CASE IsRaise(OutputFile(self)) -> <<OutputFile(self)>>
                [] IsRaise(PackerEnviron(self, world.environ)) ->
                      <<PackerEnviron(self, world.environ)>>
                [] VenvMissing(self, world.fs) -> <<Raise("SystemExit")>>
                [] OTHER -> ret
    /\ UNCHANGED <<self, arg, data_dir>>

\* run_packer, os.system(cmd_str) and the removal of the temporary directory
RpPacker ==
    /\ pc = "written"
    /\ world' = IF self.user_temp_dir = Null /\ ~self.keep
                THEN [world EXCEPT !.fs = Removed(@, self.temp_dir)]
                ELSE world
    /\ pc' = "packed"
    /\ UNCHANGED <<self, arg, data_dir, ret>>

BuildNext ==
    \/ MbTarget \/ MbPlatform \/ MbLocation \/ MbSpec \/ MbDefaults \/ MbSubstitute
    \/ RpGenFiles \/ RpOutput \/ RpPacker

SpecBuild == BuildInit /\ [][BuildNext]_vars

----------------------------------------------------------------------------
(* Properties of a build *)

\* the names make_build was asked for
TargetPlatform == Split(arg.target, "/")[1]

TargetLocation == Split(arg.target, "/")[2]

TargetSpec == Split(arg.target, "/")[3]

\* the pattern of the platform_specific entry of the location document
LocationPattern == data_dir.locations[s_lab].v[s_platform_specific].v[1].v[s_platform].v

\* whether the whole of a platform name is in the language of the pattern, letter
\* case ignored, for the patterns of PlatformPatterns
StatedPlatformMatch(pattern, platform) ==
    IF pattern = <<"v", "m", ".", "*">> THEN StartsWith(Lowered(platform), <<"v", "m">>)
    ELSE Lowered(platform) = Lowered(pattern)

\* make_build has named the target and has loaded no document yet
BeforeFirstLoad == pc = "load_platform"

\* C2: make_build sets defs platform, location, dist, version and arch before the
\* first document is loaded: when the platform document is about to be loaded the
\* five are in defs, with the names of the target and the values of its index
\* entry; and with the platform document setting defs.firmware to bios and the
\* location document overriding it to efi for the platforms its pattern matches,
\* a build ends with firmware efi when the pattern matches the whole platform name
\* and with bios when it does not.
C2_TargetNamesBeforeLoad ==
    /\ BeforeFirstLoad =>
          /\ self.platform = Map(EmptyMap) /\ self.location = Map(EmptyMap)
          /\ self.spec = Map(EmptyMap)
          /\ {s_platform, s_location, s_dist, s_version, s_arch} \subseteq DOMAIN self.defs
          /\ self.defs[s_platform] = Str(TargetPlatform)
          /\ self.defs[s_location] = Str(TargetLocation)
          /\ Join(<<self.defs[s_dist].v, self.defs[s_version].v, self.defs[s_arch].v>>, <<"-">>)
                = TargetSpec
    /\ pc = "built" =>
          self.defs[s_firmware] =
              IF StatedPlatformMatch(LocationPattern, TargetPlatform)
              THEN Str(<<"e", "f", "i">>) ELSE Str(<<"b", "i", "o", "s">>)

\* a build for vmware, over a location whose entry names vmware, ended with efi
C2_Witness ==
    /\ pc = "built"
    /\ TargetPlatform = s_vmware
    /\ LocationPattern = s_vmware
    /\ data_dir.platforms[s_vmware].v[s_defs].v[s_firmware] = Str(<<"b", "i", "o", "s">>)
    /\ self.defs[s_firmware] = Str(<<"e", "f", "i">>)

\* some text of x holds a marker >>name<< whose name is a key of defs
HoldsDefsMarker(x, defs) ==
    \E t \in TextsIn(x) : \E k \in DOMAIN defs :
        Contains(t, <<">", ">">> \o k \o <<"<", "<">>)

\* C7: after make_build no string of the final defs, variables, config or
\* provisioner list still holds a marker >>name<< whose name is a key of defs,
\* whatever the depth of the chain of defs and whether the marker is the whole
\* string or inside it.
C7_NoDefsMarkerLeft ==
    pc = "built" =>
        /\ ~HoldsDefsMarker(Map(self.defs), self.defs)
        /\ ~HoldsDefsMarker(Map(self.variables), self.defs)
        /\ ~HoldsDefsMarker(Map(self.config), self.defs)
        /\ ~HoldsDefsMarker(ret[1], self.defs)

\* the defs of the spec document before the build
SpecDefs == data_dir.specs[<<"r">>].v[s_defs].v

\* the same, for the builds whose defs name no def that names another def
C7_NoDefsMarkerLeftOneDeep ==
    (pc = "built" /\ s_c \notin DOMAIN SpecDefs) =>
        /\ ~HoldsDefsMarker(Map(self.defs), self.defs)
        /\ ~HoldsDefsMarker(Map(self.variables), self.defs)
        /\ ~HoldsDefsMarker(Map(self.config), self.defs)
        /\ ~HoldsDefsMarker(ret[1], self.defs)

\* the documents the target names, when they exist
TargetLocationDoc == data_dir.locations[TargetLocation]

TargetSpecDoc == data_dir.specs[Split(TargetSpec, "-")[1]]

\* a document lists names under `key`, and `name` is not one of them
Leaves(doc, key, name) ==
    /\ key \in DOMAIN doc.v
    /\ \A i \in 1..Len(doc.v[key].v) : doc.v[key].v[i] # Str(name)

\* the target is platform/location/spec over documents that exist, and the
\* composition cannot go through: the spec key is not in the catalog, or the
\* location document or the spec document does not list what the target names
NotInCatalog == \A t \in Targets : t.arch \in Listed => TargetKey(t) # TargetSpec

Refused ==
    /\ Len(Split(arg.target, "/")) = 3
    /\ TargetPlatform \in DOMAIN data_dir.platforms
    /\ TargetLocation \in DOMAIN data_dir.locations
    /\ \/ NotInCatalog
       \/ Leaves(TargetLocationDoc, s_platforms, TargetPlatform)
       \/ Leaves(TargetSpecDoc, s_platforms, TargetPlatform)
       \/ Leaves(TargetSpecDoc, s_locations, TargetLocation)

\* a manifest is in the files
ManifestWritten == \E p \in DOMAIN world.fs : EndsWith(p, s_dot_json)

\* C12: when the spec key is not in the catalog, or the location document lists
\* platforms without the platform of the target, or the spec document lists platforms
\* or locations without the platform or the location of the target, make_build ends
\* in an error before the substitution pass and no manifest is assigned to the object,
\* returned or written.
C12_RefusedWithoutManifest ==
    Refused =>
        /\ pc \in {"make_build", "load_platform", "load_location", "load_spec", "failed"}
        /\ self.build = Null
        /\ ~ManifestWritten
        /\ pc = "failed" => IsRaise(ret[1])

\* a build for vmware over a location document that lists kvm only has failed
C12_Witness ==
    /\ pc = "failed"
    /\ Refused
    /\ TargetPlatform = s_vmware
    /\ Leaves(TargetLocationDoc, s_platforms, TargetPlatform)
    /\ ~NotInCatalog
    /\ IsRaise(ret[1])
    /\ self.build = Null

\* some text of x holds a marker of the vault family or of a hash family
SecretMarked(x) ==
    \E t \in TextsIn(x) : \E a \in {5, 8, 9, 10} :
        extract_all(t, ACTIONS_[a][2], ACTIONS_[a][3]) # <<>>

\* no secret store is configured: there is no .vaultconfig, or it lacks the address or
\* the token, or the vault does not accept the token
NoSecretStore ==
    \/ world.vaultconfig = Null
    \/ ~Contains(world.vaultconfig.v, <<"a", "d", "d", "r", "=">>)
    \/ ~Contains(world.vaultconfig.v, <<"t", "o", "k", "e", "n", "=">>)
    \/ world.authenticated # "yes"

\* C13: when a document of the build holds a secret marker (the vault family |>..<|
\* or a hash family 1>..<1, 5>..<5, 6>..<6) and no secret store is configured,
\* make_build fails: it assigns and returns no manifest, and none is written.
C13_SecretWithoutStoreFails ==
    (/\ Len(Split(arg.target, "/")) = 3
     /\ Split(TargetSpec, "-")[1] \in DOMAIN data_dir.specs
     /\ SecretMarked(TargetSpecDoc)
     /\ NoSecretStore)
    => /\ pc \notin {"built", "generated", "written", "packed"}
       /\ self.build = Null
       /\ ~ManifestWritten


\* the text the sources of a files entry hold, one after the other, as the files are
\* before gen_files; the sources of the scenarios name their files as written
RECURSIVE SourcesText(_, _)
SourcesText(sources, i) ==
    IF i > Len(sources) THEN <<>>
    ELSE world.fs[SourcePath(sources[i].v)].v \o SourcesText(sources, i + 1)

\* a files entry with a destination whose sources all exist and hold some text
WritableEntry(file) ==
    /\ s_dest \in DOMAIN file.v
    /\ \A i \in 1..Len(file.v[s_sources].v) :
          SourcePath(file.v[s_sources].v[i].v) \in DOMAIN world.fs
    /\ SourcesText(file.v[s_sources].v, 1) # <<>>

\* C19: gen_files writes one output file for every files entry that has a destination:
\* the file at the substituted dest under the temporary directory of the build holds
\* the substituted text of the entry's sources in listed order, whatever the other
\* entries hold (an entry whose content is empty does not stop the later ones).
C19_EveryEntryWritten ==
    pc \in {"generated", "written"} =>
       \A i \in 1..Len(self.files) :
          WritableEntry(self.files[i]) =>
             LET dest == PathJoin(self.defs[s_temp_dir].v,
                                  do_substr(self.files[i].v[s_dest].v, self).v)
             IN  /\ dest \in DOMAIN world.fs
                 /\ world.fs[dest]
                      = do_substr(SourcesText(self.files[i].v[s_sources].v, 1), self)


----------------------------------------------------------------------------
(* Rebuilding index.json while it is read.  Three processes share the data directory:
   one rebuilds the index with settings.save_index set (make_index), one reads it
   with get_index(), one with BuildRunner._validate_spec of
   src/backend/services/build_manager.py.  Here pc, arg and ret hold one field for
   each process, and index.json is held in world.fs: a Dict when its text is whole,
   Partial(items) while only the text of the first items has reached the file. *)

Partial(items) == [t |-> "partial", v |-> items]

\* os.path.join(self.get_path("data_dir"), "specs", "index.json")
IndexPath == get_path(NewImager, "data_dir", <<s_specs, <<"i", "n", "d", "e", "x">> \o s_dot_json>>)

\* the documents under specs/ before and after they are edited
SnapshotSpecs ==
    { EmptyMap,
      SpecNames[1] :> ProvidesDoc(<<"r">>, List(<<Str(<<"9">>), Str(<<"1", "0">>)>>),
                                  <<s_x86_64>>, <<>>),
      SpecNames[1] :> ProvidesDoc(<<"R">>, Str(<<"9">>), <<s_x86_64>>, <<>>),
      (SpecNames[1] :> ProvidesDoc(<<"r">>, List(<<Str(<<"9">>), Str(<<"1", "0">>)>>),
                                   <<s_x86_64>>, <<>>))
      @@ (SpecNames[2] :> ProvidesDoc(<<"R">>, Str(<<"9">>), <<s_x86_64>>, <<>>)) }

\* index.json holds the index of the documents, written by an earlier run; `previous`
\* keeps what it held, for the properties only
SnapshotInit ==
    /\ pc = [rebuild |-> "edit", reader |-> "get_index", validate |-> "_validate_spec"]
    /\ self = [NewImager EXCEPT !.settings.save_index = TRUE]
    /\ \E specs \in SnapshotSpecs : \E files \in find_files(specs) :
          data_dir = [platforms |-> <<"p">> :> ArchesDoc(<<s_x86_64>>),
                      locations |-> EmptyMap, specs |-> specs, index |-> Null,
                      walk |-> files]
    /\ world = [NoWorld EXCEPT !.fs = IndexPath :> make_index(data_dir.walk)]
    /\ arg = [sorted_index |-> Null, previous |-> world.fs[IndexPath]]
    /\ ret = [reader |-> Null, validate |-> Null]

\* the documents under specs/ are edited, and a rebuild is started
EditSpecs ==
    /\ pc.rebuild = "edit"
    /\ \E specs \in SnapshotSpecs \ {data_dir.specs} : \E files \in find_files(specs) :
          data_dir' = [data_dir EXCEPT !.specs = specs, !.walk = files]
    /\ pc' = [pc EXCEPT !.rebuild = "make_index"]
    /\ UNCHANGED <<self, world, arg, ret>>

\* make_index up to sorted_index = {k: index[k] for k in sorted(index, key=natural_key)}
RbIndex ==
    /\ pc.rebuild = "make_index"
    /\ arg' = [arg EXCEPT !.sorted_index = make_index(data_dir.walk)]
    /\ pc' = [pc EXCEPT !.rebuild = IF IsRaise(arg'.sorted_index) THEN "failed"
                                    ELSE IF self.settings.save_index THEN "open"
                                    ELSE "done"]
    /\ UNCHANGED <<self, data_dir, world, ret>>

\* with open(file_name, 'w') as f: the file is emptied
RbOpen ==
    /\ pc.rebuild = "open"
    /\ world' = [world EXCEPT !.fs = Put(@, IndexPath, Partial(<<>>))]
    /\ pc' = [pc EXCEPT !.rebuild = "dump"]
    /\ UNCHANGED <<self, data_dir, arg, ret>>

\* json.dump(sorted_index, f, indent=4): the text written so far reaches the file
\* whenever the buffer of f is flushed, up to some item
RbDump ==
    /\ pc.rebuild = "dump"
    /\ \E n \in (Len(world.fs[IndexPath].v) + 1)..Len(arg.sorted_index.v) :
          world' = [world EXCEPT !.fs = Put(@, IndexPath,
                                            Partial(SubSeq(arg.sorted_index.v, 1, n)))]
    /\ UNCHANGED <<pc, self, data_dir, arg, ret>>

\* f.close(): the whole text is in the file
RbClose ==
    /\ pc.rebuild = "dump"
    /\ world' = [world EXCEPT !.fs = Put(@, IndexPath, arg.sorted_index)]
    /\ pc' = [pc EXCEPT !.rebuild = "done"]
    /\ UNCHANGED <<self, data_dir, arg, ret>>

\* json.load(f) of what the file holds now: a text that is not whole does not parse
Loaded(fs, error) == IF fs[IndexPath].t = "dict" THEN fs[IndexPath] ELSE Raise(error)

\* get_index(): if os.path.isfile(file_name) ... else index = self.make_index().
\* index.json is there from the start, so the else branch is not taken here.
RdIsFile ==
    /\ pc.reader = "get_index"
    /\ IF IndexPath \in DOMAIN world.fs
       THEN pc' = [pc EXCEPT !.reader = "load"] /\ ret' = ret
       ELSE pc' = [pc EXCEPT !.reader = "done"]
            /\ ret' = [ret EXCEPT !.reader = make_index(data_dir.walk)]
    /\ UNCHANGED <<self, data_dir, world, arg>>

\* index = json.load(f); a JSONDecodeError ends the process with sys.exit(1)
RdLoad ==
    /\ pc.reader = "load"
    /\ ret' = [ret EXCEPT !.reader = Loaded(world.fs, "SystemExit")]
    /\ pc' = [pc EXCEPT !.reader = IF IsRaise(ret'.reader) THEN "failed" ELSE "done"]
    /\ UNCHANGED <<self, data_dir, world, arg>>

\* _validate_spec: if not index_file.exists(): raise ValueError
VsExists ==
    /\ pc.validate = "_validate_spec"
    /\ IF IndexPath \in DOMAIN world.fs
       THEN pc' = [pc EXCEPT !.validate = "load"] /\ ret' = ret
       ELSE pc' = [pc EXCEPT !.validate = "failed"]
            /\ ret' = [ret EXCEPT !.validate = Raise("ValueError")]
    /\ UNCHANGED <<self, data_dir, world, arg>>

\* _validate_spec: index = json.load(f); any exception is raised as a ValueError
VsLoad ==
    /\ pc.validate = "load"
    /\ ret' = [ret EXCEPT !.validate = Loaded(world.fs, "ValueError")]
    /\ pc' = [pc EXCEPT !.validate = IF IsRaise(ret'.validate) THEN "failed" ELSE "done"]
    /\ UNCHANGED <<self, data_dir, world, arg>>

SnapshotNext ==
    EditSpecs \/ RbIndex \/ RbOpen \/ RbDump \/ RbClose \/ RdIsFile \/ RdLoad \/ VsExists \/ VsLoad

SpecSnapshot == SnapshotInit /\ [][SnapshotNext]_vars

\* C20: a reader of index.json that runs while the index is rebuilt obtains the whole
\* previous catalog or the whole new one, never an empty or partly written one: it
\* does not fail, and what it loads is what the file held before the rebuild or what
\* the rebuild writes.
C20_ReaderGetsWholeSnapshot ==
    /\ pc.reader \in {"done", "failed"} => ret.reader \in {arg.previous, arg.sorted_index}
    /\ pc.validate \in {"done", "failed"} => ret.validate \in {arg.previous, arg.sorted_index}

----------------------------------------------------------------------------
(* Spec documents managed by the backend: SpecService of
   src/backend/services/spec_service.py behind the routes of
   src/backend/routers/specs.py.  data_dir.specs maps the name of every stored
   spec to the content of <specs_dir>/<name>/spec.json, data_dir.index is what
   index.json was last generated from.  No method of the service suspends (the
   index generator is run with subprocess.run), so each call is one step. *)

s_metadata == <<"m", "e", "t", "a", "d", "a", "t", "a">>

StoreNames == { <<"a", "b">>, <<"c", "d">> }

\* contents a client posts: JSON objects (SpecCreate.content is a Dict[str, Any])
StoreContents ==
    { (s_platforms :> List(<<Str(s_vmware)>>)),
      (s_platforms :> List(<<Str(s_kvm)>>)) @@ (s_locations :> List(<<Str(s_lab)>>))
         @@ (s_provides :> Map(s_dist :> Str(<<"r">>)))
         @@ (s_defs :> Map(s_firmware :> Str(<<"b">>))),
      (s_platforms :> List(<<Str(s_vmware)>>)) @@ (s_defs :> List(<<Str(<<"b">>)>>)),
      (s_locations :> List(<<Str(s_lab)>>)) @@ (s_metadata :> Map(EmptyMap)),
      (s_platforms :> Str(s_vmware)),
      (s_provides :> Map(s_versions :> Str(<<"9">>))) }

AllStr(l) == \A i \in 1..Len(l) : IsStr(l[i])

\* validate_spec_content(content).errors, as the fields found in error
ValidationErrors(content) ==
    LET provides == content[s_provides]
        listed(d, key, field) ==
            IF key \notin DOMAIN d THEN <<>>
            ELSE IF ~IsList(d[key]) THEN <<field>>
            ELSE IF ~AllStr(d[key].v) THEN <<field>>
            ELSE <<>>
    IN  (IF s_platforms \in DOMAIN content /\ ~IsList(content[s_platforms])
         THEN <<"platforms">> ELSE <<>>)
        \o (IF s_locations \in DOMAIN content /\ ~IsList(content[s_locations])
            THEN <<"locations">> ELSE <<>>)
        \o (IF s_provides \notin DOMAIN content THEN <<>>
            ELSE IF ~IsMap(provides) THEN <<"provides">>
            ELSE (IF s_dist \in DOMAIN provides.v /\ ~IsStr(provides.v[s_dist])
                  THEN <<"provides.dist">> ELSE <<>>)
                 \o listed(provides.v, s_versions, "provides.versions")
                 \o listed(provides.v, s_arches, "provides.arches"))

\* validate_spec_content(content).valid
validate_spec_content(content) == ValidationErrors(content) = <<>>

\* the validator ensure_list of the model Spec
ensure_list(v) == IF IsStr(v) THEN List(<<v>>) ELSE IF Truthy(v) THEN v ELSE List(<<>>)

\* what makes the body of get_spec raise, so that it logs the error and returns None:
\* provides_data.get on a value that is no dict, SpecDefaults(**content['defs']) on a
\* value that is no mapping, or a key `metadata` in the content, which Spec(...) then
\* receives twice
SpecUnloadable(content) ==
    \/ s_provides \in DOMAIN content /\ ~IsMap(content[s_provides])
    \/ s_defs \in DOMAIN content /\ ~IsMap(content[s_defs])
    \/ s_metadata \in DOMAIN content

\* the Spec object get_spec builds from a content it can load
SpecObject(name, content) ==
    [t |-> "Spec",
     v |-> [platforms |-> ensure_list(Get(content, s_platforms, List(<<>>))),
            locations |-> ensure_list(Get(content, s_locations, List(<<>>))),
            provides |-> IF s_provides \in DOMAIN content
                         THEN Map((s_dist :> Get(content[s_provides].v, s_dist, Null))
                                  @@ (s_versions :> Get(content[s_provides].v, s_versions, List(<<>>)))
                                  @@ (s_arches :> Get(content[s_provides].v, s_arches, List(<<>>))))
                         ELSE Null,
            defs |-> Get(content, s_defs, Null),
            metadata |-> name,
            extra |-> [k \in DOMAIN content \ {s_platforms, s_locations, s_provides, s_defs}
                          |-> content[k]]]]

\* get_spec(name): None when spec.json is not there, and None when loading it raises
get_spec(specs, name) ==
    IF name \notin DOMAIN specs THEN Null
    ELSE IF SpecUnloadable(specs[name]) THEN Null
    ELSE SpecObject(name, specs[name])

\* rebuild_specs_index(): the generator script is run when it is installed, and
\* index.json then describes the documents stored now
rebuild_specs_index(dd, installed) ==
    IF installed THEN [dd EXCEPT !.index = [t |-> "index", v |-> DOMAIN dd.specs]] ELSE dd

\* create_spec(spec_create): the store afterwards and what the call returns or raises
create_spec(dd, installed, name, content) ==
    IF get_spec(dd.specs, name).t # "null"
    THEN [data_dir |-> dd, ret |-> Raise("ValueError")]
    ELSE IF ~validate_spec_content(content)
    THEN [data_dir |-> dd, ret |-> Raise("ValueError")]
    ELSE LET written == [dd EXCEPT !.specs = Put(@, name, content)]
         IN  [data_dir |-> rebuild_specs_index(written, installed),
              ret |-> get_spec(written.specs, name)]

\* update_spec(name, spec_update)
update_spec(dd, installed, name, content) ==
    IF get_spec(dd.specs, name).t = "null"
    THEN [data_dir |-> dd, ret |-> Null]
    ELSE IF ~validate_spec_content(content)
    THEN [data_dir |-> dd, ret |-> Raise("ValueError")]
    ELSE LET written == [dd EXCEPT !.specs = Put(@, name, content)]
         IN  [data_dir |-> rebuild_specs_index(written, installed),
              ret |-> get_spec(written.specs, name)]

\* delete_spec(name): the directory of the spec is removed when it exists
delete_spec(dd, installed, name) ==
    IF name \notin DOMAIN dd.specs
    THEN [data_dir |-> dd, ret |-> Bool(FALSE)]
    ELSE [data_dir |-> rebuild_specs_index([dd EXCEPT !.specs = Pop(@, name)], installed),
          ret |-> Bool(TRUE)]

\* copy_spec(source_name, target_name)
copy_spec(dd, installed, source_name, target_name) ==
    IF get_spec(dd.specs, source_name).t = "null"
    THEN [data_dir |-> dd, ret |-> Null]
    ELSE IF get_spec(dd.specs, target_name).t # "null"
    THEN [data_dir |-> dd, ret |-> Raise("ValueError")]
    ELSE create_spec(dd, installed, target_name, dd.specs[source_name])

\* the status the routes answer with: a ValueError is a 400, None from update_spec or
\* copy_spec a 404, and None from create_spec fails the response model
StatusCode(op, r) ==
    IF IsRaise(r) THEN (IF r.v = "ValueError" THEN 400 ELSE 500)
    ELSE IF r.t = "null" THEN (IF op = "create_spec" THEN 500 ELSE 404)
    ELSE IF r.t = "bool" THEN (IF r.v THEN 204 ELSE 404)
    ELSE IF op = "update_spec" THEN 200 ELSE 201

StoreInit ==
    /\ pc = "SpecService"
    /\ self = [specs_dir |-> s_specs]
    /\ \E specs \in {EmptyMap} \cup { n :> c : n \in StoreNames,
                                      c \in { d \in StoreContents :
                                                 validate_spec_content(d) /\ ~SpecUnloadable(d) } } :
          data_dir = [specs |-> specs, index |-> [t |-> "index", v |-> DOMAIN specs]]
    /\ world \in { [generator |-> b] : b \in BOOLEAN }
    /\ arg = [op |-> "__init__", name |-> <<>>, content |-> EmptyMap]
    /\ ret = Null

Called(op, name, content, result) ==
    /\ pc' = op
    /\ arg' = [op |-> op, name |-> name, content |-> content]
    /\ data_dir' = result.data_dir
    /\ ret' = result.ret
    /\ UNCHANGED <<self, world>>

CreateSpec ==
    \E name \in StoreNames, content \in StoreContents :
       Called("create_spec", name, content,
              create_spec(data_dir, world.generator, name, content))

UpdateSpec ==
    \E name \in StoreNames, content \in StoreContents :
       Called("update_spec", name, content,
              update_spec(data_dir, world.generator, name, content))

DeleteSpec ==
    \E name \in StoreNames :
       Called("delete_spec", name, EmptyMap, delete_spec(data_dir, world.generator, name))

\* arg.content holds the source name of a copy
CopySpec ==
    \E source_name \in StoreNames, target_name \in StoreNames :
       Called("copy_spec", target_name, source_name,
              copy_spec(data_dir, world.generator, source_name, target_name))

StoreNext == CreateSpec \/ UpdateSpec \/ DeleteSpec \/ CopySpec

SpecStore == StoreInit /\ [][StoreNext]_vars

\* C21: a create_spec call that names a spec whose file is stored is rejected with
\* ValueError (status 400) and leaves the stored content of that spec as it was.
C21_DuplicateCreateRejected ==
    [][ (arg'.op = "create_spec" /\ arg'.name \in DOMAIN data_dir.specs) =>
           /\ IsRaise(ret') /\ ret'.v = "ValueError"
           /\ StatusCode(arg'.op, ret') = 400
           /\ data_dir'.specs[arg'.name] = data_dir.specs[arg'.name] ]_vars

----------------------------------------------------------------------------
(* The build manager of the backend: BuildManager and BuildRunner of
   src/backend/services/build_manager.py, run by one asyncio event loop.  A task
   runs without interruption from one await that suspends it to the next, and each
   action below is one such stretch of one task.  The awaits that suspend are
   create_subprocess_exec, stdout.readline and process.wait in the runner,
   asyncio.sleep and wait_for(build_queue.get()) in the workers, and ws.send_text
   in _broadcast_message; with no connection _broadcast_message returns at once.

   self is the manager: builds, active_builds, build_queue, websocket_connections.
   pc holds the position of every task, world the subprocesses, arg the local
   variable queued_build of the worker and the last request, ret what the requests
   returned.  Times are kept as ages: completed_at holds how many days ago the
   build completed, capped at MaxAge. *)

MaxBuilds == 2

MaxSockets == 1

MaxLines == 1

\* the values settings.max_concurrent_builds is configured with here (3 by default)
ConcurrentBuilds == {1, 2}

\* the priorities a BuildCreate is posted with, of 0..10
Priorities == {0, 10}

\* timedelta(hours=24), in days
CutoffDays == 1

\* ages of completed builds are counted in days up to this one
MaxAge == CutoffDays + 1

BuildIds == 1..MaxBuilds

Sockets == 1..MaxSockets

QUEUED == "queued"

PREPARING == "preparing"

RUNNING == "running"

COMPLETED == "completed"

FAILED == "failed"

CANCELLED == "cancelled"

\* the terminal statuses the cleanup worker removes
TerminalStatus == {COMPLETED, FAILED, CANCELLED}

\* a task that is not inside _broadcast_message
NoBc == [on |-> FALSE, sent |-> {}, used |-> 0, cur |-> 0, failed |-> {}, ctx |-> ""]

FirstSocket(S) == CHOOSE w \in S : \A v \in S : w <= v

\* _broadcast_message(message) called by a task that goes on at `next` afterwards:
\* nothing without connections, else the iteration over the set starts and the task
\* is suspended in the first send_text.  ctx names the try block around the call.
\* (Sockets are iterated in the order of their numbers.)
BroadcastMessage(s, next, ctx) ==
    IF s.mgr.websocket_connections = {}
    THEN [s EXCEPT !.fr.at = next]
    ELSE [s EXCEPT !.fr.at = next,
                   !.fr.bc = [on |-> TRUE, sent |-> {},
                              used |-> Cardinality(s.mgr.websocket_connections),
                              cur |-> FirstSocket(s.mgr.websocket_connections),
                              failed |-> {}, ctx |-> ctx]]

\* where a RuntimeError raised by the `for ws in self.websocket_connections` of
\* _broadcast_message is caught: by `except Exception` of run (the build is marked
\* FAILED), by `except Exception ... break` of _monitor_output (monitoring ends and
\* run goes on to process.wait), or by nothing when it is raised in the except
\* clause of run itself or in a request
Handler(ctx) ==
    CASE ctx = "run" -> "except"
      [] ctx = "monitor" -> "wait"
      [] ctx = "except" -> "finally"
      [] OTHER -> "raise"

\* send_text has returned (ok) or raised: the iteration goes on.  The set iterator
\* raises RuntimeError when the size of the set is not what it was when the
\* iteration began; after the last connection those that failed are discarded.
SendReturned(s, ok) ==
    LET bc == s.fr.bc
        failed == IF ok THEN bc.failed ELSE bc.failed \cup {bc.cur}
        sent == bc.sent \cup {bc.cur}
        conns == s.mgr.websocket_connections
    IN  IF Cardinality(conns) # bc.used
        THEN [s EXCEPT !.fr.at = Handler(bc.ctx), !.fr.bc = NoBc]
        ELSE IF conns \ sent = {}
        THEN [s EXCEPT !.fr.bc = NoBc, !.mgr.websocket_connections = conns \ failed]
        ELSE [s EXCEPT !.fr.bc = [bc EXCEPT !.sent = sent, !.failed = failed,
                                            !.cur = FirstSocket(conns \ sent)]]

\* BuildRunner._update_status(status) up to its broadcast
UpdateStatus(s, id, status, next, ctx) ==
    BroadcastMessage(
        [s EXCEPT !.mgr.builds[id].status = status,
                  !.mgr.builds[id].started_at = (@ \/ status = RUNNING)],
        next, ctx)

\* BuildRunner._log(level, message, source) up to its broadcast; a log entry is kept
\* as its message (the last 100 are kept, more than a build gets here)
Log(s, id, message, next, ctx) ==
    BroadcastMessage([s EXCEPT !.mgr.builds[id].logs = Append(@, message)], next, ctx)

\* BuildRunner._validate_config(): the spec key is in the index and its file exists,
\* the platform and the location documents exist
ValidateConfig(config, files) ==
    /\ config.spec \in files.specs
    /\ config.platform \in files.platforms
    /\ config.location \in files.locations

\* _parse_progress(line, step_count, total_steps) is not None
ParseProgress(line) == line = "step"

\* one statement of BuildRunner.run (and of _monitor_output inside it) by the runner
\* of build id, whose task is at s.fr.at
Statement(s, id, procs, files) ==
    LET at == s.fr.at
        build == s.mgr.builds[id]
    IN  CASE at = "run" -> UpdateStatus(s, id, PREPARING, "log_preparing", "run")
          [] at = "log_preparing" -> Log(s, id, "Preparing", "validate", "run")
          [] at = "validate" ->
               [s EXCEPT !.fr.at = IF ValidateConfig(build.config, files)
                                   THEN "status_running" ELSE "except"]
          [] at = "status_running" -> UpdateStatus(s, id, RUNNING, "log_starting", "run")
          [] at = "log_starting" -> Log(s, id, "Starting", "exec", "run")
          [] at = "log_line" ->
               Log(s, id, s.fr.line,
                   IF ParseProgress(s.fr.line) THEN "progress" ELSE "readline", "monitor")
          [] at = "progress" ->
               BroadcastMessage([s EXCEPT !.mgr.builds[id].progress = @ + 1],
                                "readline", "monitor")
          [] at = "wait" ->
               [s EXCEPT !.fr.at = IF procs[id].returncode = "none" THEN "process.wait"
                                   ELSE IF procs[id].returncode = "0" THEN "status_completed"
                                   ELSE "status_failed"]
          [] at = "status_completed" -> UpdateStatus(s, id, COMPLETED, "log_completed", "run")
          [] at = "log_completed" -> Log(s, id, "completed", "finally", "run")
          [] at = "status_failed" -> UpdateStatus(s, id, FAILED, "log_failed", "run")
          [] at = "log_failed" -> Log(s, id, "failed", "finally", "run")
          [] at = "except" -> UpdateStatus(s, id, FAILED, "log_exception", "except")
          [] at = "log_exception" -> Log(s, id, "exception", "error_message", "except")
          [] at = "error_message" ->
               [s EXCEPT !.mgr.builds[id].error_message = TRUE, !.fr.at = "finally"]
          [] at = "finally" ->
               [s EXCEPT !.mgr.builds[id].completed_at =
                             IF build.started_at THEN 0 ELSE @,
                         !.fr.at = "done"]

\* the positions at which the task of a runner is suspended, or has ended
Suspended(fr) ==
    fr.bc.on \/ fr.at \in {"created", "exec", "readline", "process.wait", "done", "cleaned"}

\* the runner of build id runs until it is suspended (the state is bound to v so
\* that it is computed once)
RECURSIVE Advance(_, _, _, _)
Advance(s, id, procs, files) ==
    CHOOSE r \in { IF Suspended(v.fr) THEN v
                   ELSE Advance(Statement(v, id, procs, files), id, procs, files) :
                   v \in {s} } : TRUE

\* the build configurations posted: the documents of the first exist, the spec key
\* of the second is not in the index
BuildConfigs ==
    { [platform |-> "p", location |-> "l", spec |-> "r-9-x86_64"],
      [platform |-> "p", location |-> "l", spec |-> "none"] }

\* the output of a build process, line by line: a line that _parse_progress takes
\* for a step, or any other line
ProcessLines == {"step", "line"}

\* Build(id=..., config=config, status=BuildStatus.QUEUED)
NewBuild(config) ==
    [config |-> config, status |-> QUEUED, started_at |-> FALSE, completed_at |-> -1,
     logs |-> <<>>, progress |-> 0, error_message |-> FALSE]

\* BuildRunner(build, manager), with the position of its task
NewRunner ==
    [at |-> "created", bc |-> NoBc, line |-> "", cancelled |-> FALSE, process |-> FALSE]

\* no request is being served
NoRequest == [at |-> "idle", bc |-> NoBc, op |-> "", build_id |-> 0, status |-> ""]

\* BuildManager.__init__(), before start(); arg.posts is the number of builds the
\* clients are going to post
NewManager(posts) ==
    /\ pc = [worker |-> "none", cleanup |-> "none", runner |-> EmptyMap, request |-> NoRequest]
    /\ \E n \in ConcurrentBuilds :
          self = [is_running |-> FALSE, builds |-> EmptyMap, active_builds |-> {},
                  build_queue |-> <<>>, websocket_connections |-> {},
                  settings |-> [max_concurrent_builds |-> n]]
    /\ data_dir = [specs |-> {"r-9-x86_64"}, platforms |-> {"p"}, locations |-> {"l"}]
    /\ world = [process |-> EmptyMap, uuid |-> 0]
    /\ arg = [queued_build |-> 0, posts |-> posts]
    /\ ret = [value |-> Null, cancel |-> [id \in BuildIds |-> "none"]]

ManagerInit == NewManager(MaxBuilds)

\* start(): the two background tasks are created
Start ==
    /\ ~self.is_running
    /\ self' = [self EXCEPT !.is_running = TRUE]
    /\ pc' = [pc EXCEPT !.worker = "loop", !.cleanup = "sweep"]
    /\ UNCHANGED <<data_dir, world, arg, ret>>

\* a request has got through its broadcast, or is suspended in it: what it returns
\* is recorded, for cancel_build with the status the build had when it was called
Served(s) ==
    /\ self' = s.mgr
    /\ IF s.fr.bc.on
       THEN pc' = [pc EXCEPT !.request = s.fr] /\ ret' = ret
       ELSE /\ pc' = [pc EXCEPT !.request = NoRequest]
            /\ ret' = IF s.fr.at = "raise" THEN [ret EXCEPT !.value = Raise("RuntimeError")]
                      ELSE IF s.fr.op = "create_build"
                      THEN [ret EXCEPT !.value = Num(s.fr.build_id)]
                      ELSE [ret EXCEPT !.value = Bool(TRUE),
                                       !.cancel[s.fr.build_id] = s.fr.status]

\* create_build(config, priority): the build is stored and put on the queue, then
\* its creation is broadcast
CreateBuild ==
    /\ pc.request.at = "idle"
    /\ world.uuid < arg.posts
    /\ \E config \in BuildConfigs, priority \in Priorities :
          LET id == world.uuid + 1
              mgr == [self EXCEPT !.builds = Put(@, id, NewBuild(config)),
                                  !.build_queue = Append(@, [priority |-> priority,
                                                             created_at |-> id,
                                                             build |-> id])]
              fr == [NoRequest EXCEPT !.op = "create_build", !.build_id = id]
          IN  Served(BroadcastMessage([mgr |-> mgr, fr |-> fr], "return", "request"))
    /\ world' = [world EXCEPT !.uuid = @ + 1]
    /\ UNCHANGED <<data_dir, arg>>

\* runner.process.terminate(): a process that has not ended gets the signal; for
\* one that has ended the ProcessLookupError is swallowed
Terminate(procs, id) ==
    IF procs[id].returncode = "none" THEN [procs EXCEPT ![id].signalled = TRUE] ELSE procs

\* cancel_build(build_id)
CancelBuild ==
    /\ pc.request.at = "idle"
    /\ \E id \in BuildIds :
          LET fr == [NoRequest EXCEPT !.op = "cancel_build", !.build_id = id,
                                      !.status = self.builds[id].status]
          IN  IF id \notin DOMAIN self.builds
              THEN /\ ret' = [ret EXCEPT !.value = Bool(FALSE)]
                   /\ UNCHANGED <<pc, self, world>>
              ELSE IF self.builds[id].status = QUEUED
              THEN /\ Served(BroadcastMessage(
                                [mgr |-> [self EXCEPT !.builds[id].status = CANCELLED],
                                 fr |-> fr], "return", "request"))
                   /\ world' = world
              ELSE IF id \in self.active_builds
              THEN /\ pc' = [pc EXCEPT !.runner[id].cancelled = TRUE]
                   /\ world' = IF pc.runner[id].process
                               THEN [world EXCEPT !.process = Terminate(@, id)]
                               ELSE world
                   /\ ret' = [ret EXCEPT !.value = Bool(TRUE),
                                         !.cancel[id] = self.builds[id].status]
                   /\ self' = self
              ELSE /\ ret' = [ret EXCEPT !.value = Bool(FALSE)]
                   /\ UNCHANGED <<pc, self, world>>
    /\ UNCHANGED <<data_dir, arg>>

\* send_text of the broadcast of a request has returned or raised
RequestSent ==
    /\ pc.request.bc.on
    /\ \E ok \in BOOLEAN : Served(SendReturned([mgr |-> self, fr |-> pc.request], ok))
    /\ UNCHANGED <<data_dir, world, arg>>

\* add_websocket(websocket)
AddWebsocket ==
    /\ \E ws \in Sockets \ self.websocket_connections :
          self' = [self EXCEPT !.websocket_connections = @ \cup {ws}]
    /\ UNCHANGED <<pc, data_dir, world, arg, ret>>

\* remove_websocket(websocket)
RemoveWebsocket ==
    /\ \E ws \in self.websocket_connections :
          self' = [self EXCEPT !.websocket_connections = @ \ {ws}]
    /\ UNCHANGED <<pc, data_dir, world, arg, ret>>

\* a worker that starts builds without looking at active_builds
AlwaysRoom(mgr) == TRUE

\* not len(self.active_builds) >= self.settings.max_concurrent_builds
HasRoom(mgr) == ~(Cardinality(mgr.active_builds) >= mgr.settings.max_concurrent_builds)

\* QueuedBuild.__lt__(self, other)
QueuedBuild_lt(a, b) ==
    IF a.priority # b.priority THEN a.priority > b.priority ELSE a.created_at < b.created_at

\* _build_worker: while self.is_running, with room for another build, up to
\* wait_for(self.build_queue.get(), timeout=1.0); without room it sleeps and looks again
WorkerLoop ==
    /\ pc.worker = "loop"
    /\ self.is_running
    /\ HasRoom(self)
    /\ pc' = [pc EXCEPT !.worker = "get"]
    /\ UNCHANGED <<self, data_dir, world, arg, ret>>

\* _build_worker from the return of build_queue.get(), or its timeout, to the next
\* turn of the loop: a build not cancelled gets its runner, and the task of the
\* runner is created
WorkerGet ==
    /\ pc.worker = "get"
    /\ IF self.build_queue = <<>>
       THEN pc' = [pc EXCEPT !.worker = "loop"] /\ UNCHANGED <<self, arg>>
       ELSE LET queued_build == Head(self.build_queue)
                id == queued_build.build
            IN  /\ arg' = [arg EXCEPT !.queued_build = id]
                /\ IF self.builds[id].status = CANCELLED
                   THEN /\ self' = [self EXCEPT !.build_queue = Tail(@)]
                        /\ pc' = [pc EXCEPT !.worker = "loop"]
                   ELSE /\ self' = [self EXCEPT !.build_queue = Tail(@),
                                                !.active_builds = @ \cup {id}]
                        /\ pc' = [pc EXCEPT !.worker = "loop",
                                            !.runner = Put(@, id, NewRunner)]
    /\ UNCHANGED <<data_dir, world, ret>>

\* the task of a runner has run up to its next suspension
Ran(s, id) ==
    LET t == Advance(s, id, world'.process, data_dir)
    IN  /\ self' = t.mgr
        /\ pc' = [pc EXCEPT !.runner[id] = t.fr]

\* run() from its start
RunnerStart ==
    /\ \E id \in DOMAIN pc.runner :
          /\ pc.runner[id].at = "created"
          /\ world' = world
          /\ Ran([mgr |-> self, fr |-> [pc.runner[id] EXCEPT !.at = "run"]], id)
    /\ UNCHANGED <<data_dir, arg, ret>>

\* create_subprocess_exec has returned: self.process is set and _monitor_output
\* waits for the first line
RunnerExec ==
    /\ \E id \in DOMAIN pc.runner :
          /\ pc.runner[id].at = "exec"
          /\ \E lines \in SeqsUpTo(ProcessLines, MaxLines) :
                world' = [world EXCEPT !.process =
                             Put(@, id, [lines |-> lines, output |-> lines,
                                         returncode |-> "none", signalled |-> FALSE])]
          /\ Ran([mgr |-> self,
                  fr |-> [pc.runner[id] EXCEPT !.at = "readline", !.process = TRUE]], id)
    /\ UNCHANGED <<data_dir, arg, ret>>

\* stdout.readline() has returned a line, or nothing once the process has ended
RunnerReadline ==
    /\ \E id \in DOMAIN pc.runner :
          /\ pc.runner[id].at = "readline"
          /\ IF world.process[id].lines # <<>>
             THEN /\ world' = [world EXCEPT !.process[id].lines = Tail(@)]
                  /\ Ran([mgr |-> self,
                          fr |-> [pc.runner[id] EXCEPT !.at = "log_line",
                                     !.line = Head(world.process[id].lines)]], id)
             ELSE /\ world.process[id].returncode # "none"
                  /\ world' = world
                  /\ Ran([mgr |-> self, fr |-> [pc.runner[id] EXCEPT !.at = "wait"]], id)
    /\ UNCHANGED <<data_dir, arg, ret>>

\* process.wait() has returned
RunnerWait ==
    /\ \E id \in DOMAIN pc.runner :
          /\ pc.runner[id].at = "process.wait"
          /\ world.process[id].returncode # "none"
          /\ world' = world
          /\ Ran([mgr |-> self, fr |-> [pc.runner[id] EXCEPT !.at = "wait"]], id)
    /\ UNCHANGED <<data_dir, arg, ret>>

\* send_text of a broadcast of a runner has returned or raised
RunnerSent ==
    /\ \E id \in DOMAIN pc.runner :
          /\ pc.runner[id].bc.on
          /\ world' = world
          /\ \E ok \in BOOLEAN :
                Ran(SendReturned([mgr |-> self, fr |-> pc.runner[id]], ok), id)
    /\ UNCHANGED <<data_dir, arg, ret>>

\* the build process ends: by itself once it has written its output, with exit
\* code 0 or 1, or by the signal of terminate()
ProcessExit ==
    /\ \E id \in DOMAIN world.process :
          /\ world.process[id].returncode = "none"
          /\ IF world.process[id].signalled
             THEN world' = [world EXCEPT !.process[id].returncode = "-15",
                                         !.process[id].lines = <<>>]
             ELSE /\ world.process[id].lines = <<>>
                  /\ \E code \in {"0", "1"} :
                        world' = [world EXCEPT !.process[id].returncode = code]
    /\ UNCHANGED <<pc, self, data_dir, arg, ret>>

\* cleanup_build(task_ref), the done callback of the task of a runner: it reads
\* queued_build, the variable of _build_worker, when it is called
CleanupBuild ==
    /\ \E id \in DOMAIN pc.runner :
          /\ pc.runner[id].at = "done"
          /\ pc' = [pc EXCEPT !.runner[id].at = "cleaned"]
          /\ self' = [self EXCEPT !.active_builds = @ \ {arg.queued_build}]
    /\ UNCHANGED <<data_dir, world, arg, ret>>

\* what the cleanup worker removes: completed before the cutoff, in a terminal status
Expired(build) ==
    /\ build.completed_at # -1
    /\ build.completed_at > CutoffDays
    /\ build.status \in TerminalStatus

\* _cleanup_worker: one turn of its loop, up to asyncio.sleep(3600)
CleanupWorker ==
    /\ pc.cleanup = "sweep"
    /\ self.is_running
    /\ \E id \in DOMAIN self.builds : Expired(self.builds[id])
    /\ self' = [self EXCEPT !.builds =
                   [id \in { i \in DOMAIN @ : ~Expired(@[i]) } |-> @[id]]]
    /\ UNCHANGED <<pc, data_dir, world, arg, ret>>

\* a day passes
Tick ==
    /\ \E id \in DOMAIN self.builds : self.builds[id].completed_at \in 0..(MaxAge - 1)
    /\ self' = [self EXCEPT !.builds =
                   [id \in DOMAIN @ |->
                       IF @[id].completed_at \in 0..(MaxAge - 1)
                       THEN [@[id] EXCEPT !.completed_at = @ + 1] ELSE @[id]]]
    /\ UNCHANGED <<pc, data_dir, world, arg, ret>>

\* the manager without WebSocket clients: no broadcast suspends a task, and
\* process.wait() is reached once the process has ended and returns at once
ManagerNext ==
    \/ Start \/ CreateBuild \/ CancelBuild
    \/ WorkerLoop \/ WorkerGet
    \/ RunnerStart \/ RunnerExec \/ RunnerReadline
    \/ ProcessExit \/ CleanupBuild

SpecManager == ManagerInit /\ [][ManagerNext]_vars

\* C22: a build for which cancel_build returned True while it was PREPARING or
\* RUNNING does not end in COMPLETED or FAILED (it is to end in CANCELLED).
C22_CancelledWhileActive ==
    \A id \in DOMAIN self.builds :
       ret.cancel[id] \in {PREPARING, RUNNING} =>
          self.builds[id].status \notin {COMPLETED, FAILED}

\* C23: a build for which cancel_build returned True while it was QUEUED stays
\* CANCELLED, and no process is started for it.
C23_CancelledWhileQueued ==
    \A id \in DOMAIN self.builds :
       ret.cancel[id] = QUEUED =>
          /\ self.builds[id].status = CANCELLED
          /\ id \notin DOMAIN world.process

\* the entries of the queue whose build still waits to be started
Waiting(mgr) ==
    { i \in 1..Len(mgr.build_queue) : mgr.builds[mgr.build_queue[i].build].status = QUEUED }

\* C24: a build the worker takes from the queue to start it has the highest
\* priority of the builds waiting in the queue, and is the one created first among
\* those of that priority.
C24_StartedInPriorityOrder ==
    [][ \A i \in Waiting(self) :
           (/\ self.build_queue[i].build \notin DOMAIN pc.runner
            /\ self.build_queue[i].build \in DOMAIN pc'.runner)
           => \A j \in Waiting(self) :
                 ~QueuedBuild_lt(self.build_queue[j], self.build_queue[i]) ]_vars

\* C25: active_builds never holds more builds than settings.max_concurrent_builds,
\* and no more runners than that are at work.
C25_ConcurrentBuildsBounded ==
    /\ Cardinality(self.active_builds) <= self.settings.max_concurrent_builds
    /\ Cardinality({ id \in DOMAIN pc.runner : pc.runner[id].at \notin {"done", "cleaned"} })
          <= self.settings.max_concurrent_builds

\* the limit is reached while another build waits in the queue and the worker looks
C25_Witness ==
    /\ Cardinality(self.active_builds) = self.settings.max_concurrent_builds
    /\ Waiting(self) # {}
    /\ pc.worker = "loop"
    /\ \E id \in self.active_builds : pc.runner[id].at = "readline"

----------------------------------------------------------------------------
(* The cleanup worker.  One build is posted; days pass, the cleanup worker wakes
   every hour, and every task that can go on does so in the end. *)

CleanupInit == NewManager(1)

CleanupNext == ManagerNext \/ CleanupWorker \/ Tick

SpecCleanup ==
    /\ CleanupInit
    /\ [][CleanupNext]_vars
    /\ WF_vars(Start) /\ WF_vars(WorkerLoop) /\ WF_vars(WorkerGet)
    /\ WF_vars(RunnerStart) /\ WF_vars(RunnerExec) /\ WF_vars(RunnerReadline)
    /\ WF_vars(ProcessExit) /\ WF_vars(CleanupBuild)
    /\ WF_vars(CleanupWorker) /\ WF_vars(Tick)

\* C26: every build in a terminal status (COMPLETED, FAILED or CANCELLED) is
\* eventually removed from builds by the cleanup worker.
C26_TerminalBuildsRemoved ==
    \A id \in BuildIds :
       (id \in DOMAIN self.builds /\ self.builds[id].status \in TerminalStatus)
          ~> (id \notin DOMAIN self.builds)

\* a build that ran to its end, so that completed_at is set, is removed
RanBuildsRemoved ==
    \A id \in BuildIds :
       (id \in DOMAIN self.builds /\ self.builds[id].completed_at # -1)
          ~> (id \notin DOMAIN self.builds)

----------------------------------------------------------------------------
(* WebSocket clients.  One build is posted while clients connect and disconnect;
   every send_text of a broadcast suspends the task that broadcasts. *)

BroadcastInit == NewManager(1)

BroadcastNext ==
    \/ ManagerNext
    \/ AddWebsocket \/ RemoveWebsocket
    \/ RequestSent \/ RunnerSent \/ RunnerWait

SpecBroadcast == BroadcastInit /\ [][BroadcastNext]_vars

\* the lines of the process among the log entries of a build
LoggedLines(build) == SelectSeq(build.logs, LAMBDA m : m \in ProcessLines)

\* where a runner ends without regard to the connections: FAILED when its
\* configuration is not valid, else COMPLETED or FAILED by the exit code of its
\* process, with every line the process wrote in the logs (a process that was
\* terminated may not have written them all)
RunnerOutcome(build, procs, id) ==
    IF ~ValidateConfig(build.config, data_dir)
    THEN build.status = FAILED /\ id \notin DOMAIN procs
    ELSE /\ id \in DOMAIN procs
         /\ build.status = IF procs[id].returncode = "0" THEN COMPLETED ELSE FAILED
         /\ ~procs[id].signalled => LoggedLines(build) = procs[id].output

\* C30: a client that connects or disconnects while a message is broadcast does not
\* alter a build: when the runner has ended, the status of the build and the lines
\* monitored are what the configuration and the process alone determine.
C30_ConnectionsDoNotAlterBuild ==
    \A id \in DOMAIN pc.runner :
       pc.runner[id].at \in {"done", "cleaned"} =>
          RunnerOutcome(self.builds[id], world.process, id)

----------------------------------------------------------------------------
(* Include lists and the list sections: src/lib/osimager/core.py, load_file, load_inc *)

\* a document with list sections of its own: provisioners of none, one or two equal
\* entries named after the document, files of one entry, either section absent
ListDocs(name) ==
    { p @@ f :
        p \in { EmptyMap,
                s_provisioners :> List(<<Map(s_type :> Str(name))>>),
                s_provisioners :> List(<<Map(s_type :> Str(name)), Map(s_type :> Str(name))>>) },
        f \in { EmptyMap, s_files :> List(<<Str(name)>>) } }

\* the include of D: a list of two in either order, a list of one, a name
IncludeLists ==
    { List(<<Str(<<"A">>), Str(<<"B">>)>>), List(<<Str(<<"B">>), Str(<<"A">>)>>),
      List(<<Str(<<"A">>)>>), Str(<<"A">>) }

IncludeInit ==
    /\ pc = "load_data_file"
    /\ \E a \in ListDocs(<<"a">>), b \in ListDocs(<<"b">>), d \in ListDocs(<<"d">>),
          inc \in IncludeLists :
          data_dir = [NoData EXCEPT !.platforms =
                         (<<"A">> :> Map(a)) @@ (<<"B">> :> Map(b))
                         @@ (<<"D">> :> Map((s_include :> inc) @@ d))]
    /\ self = init_vars
    /\ arg = [where |-> "platforms", what |-> <<"D">>]
    /\ world = NoWorld
    /\ ret = <<>>

SpecInclude == IncludeInit /\ [][LoadNext]_vars

\* how many times e occurs in a list
Occurs(list, e) == Cardinality({ i \in 1..Len(list) : list[i] = e })

\* how many times e occurs in the section of the document `name` of platforms/
OccursInDoc(name, key, e) ==
    IF key \in DOMAIN data_dir.platforms[name].v
    THEN Occurs(data_dir.platforms[name].v[key].v, e)
    ELSE 0

\* the names D includes, D last
IncludedBy(name) ==
    IF IsList(data_dir.platforms[name].v[s_include])
    THEN [i \in 1..Len(data_dir.platforms[name].v[s_include].v) |->
             data_dir.platforms[name].v[s_include].v[i].v] \o <<name>>
    ELSE <<data_dir.platforms[name].v[s_include].v, name>>

\* the entries of a section over the documents named
EntriesOf(names, key) ==
    UNION { { data_dir.platforms[names[n]].v[key].v[i] :
                i \in 1..Len(data_dir.platforms[names[n]].v[key].v) } :
            n \in { m \in 1..Len(names) : key \in DOMAIN data_dir.platforms[names[m]].v } }

RECURSIVE OccursInDocs(_, _, _)
OccursInDocs(names, key, e) ==
    IF names = <<>> THEN 0
    ELSE OccursInDoc(Head(names), key, e) + OccursInDocs(Tail(names), key, e)

\* D was loaded, and D's include is a list of two or more documents
LoadedIncludeList ==
    /\ pc = "loaded"
    /\ arg.what = <<"D">>
    /\ IsList(Get(data_dir.platforms[<<"D">>].v, s_include, Null))
    /\ Len(data_dir.platforms[<<"D">>].v[s_include].v) >= 2

\* C27: after loading D whose include list has two or more entries, every entry of a
\* list section of D and of each included document occurs in the list of the context as
\* many times as it occurs in the documents, never more
C27_ListEntriesOnce ==
    LoadedIncludeList =>
        \A s \in { i \in 1..Len(sections) : sections[i].list } :
            \A e \in EntriesOf(IncludedBy(<<"D">>), sections[s].key) :
                Occurs(self[sections[s].attr], e)
                    = OccursInDocs(IncludedBy(<<"D">>), sections[s].key, e)

\* the part of C27 the code keeps: an include of one document
C27_SingleIncludeOnce ==
    (pc = "loaded" /\ arg.what = <<"D">> /\ Len(IncludedBy(<<"D">>)) = 2) =>
        \A s \in { i \in 1..Len(sections) : sections[i].list } :
            \A e \in EntriesOf(IncludedBy(<<"D">>), sections[s].key) :
                Occurs(self[sections[s].attr], e)
                    = OccursInDocs(IncludedBy(<<"D">>), sections[s].key, e)

----------------------------------------------------------------------------
(* The dist, version and arch of a build: make_build over specs of several dists *)

\* the dists provided, one with a "-" in its name as windows-server has
DistNames == { <<"r">>, <<"w">>, <<"w", "-", "s">> }

\* the versions a spec document provides
DistVersions == { <<(<<"9">>)>>, <<(<<"9">>), (<<"1", "0">>)>>, <<(<<"9", ".", "1">>)>> }

\* the provides section of the spec document
DistProvides(dist, versions) ==
    s_provides :> Map((s_dist :> Str(dist)) @@ (s_versions :> Names(versions))
                      @@ (s_arches :> List(<<Str(s_x86_64)>>)))

\* the key of the catalog for a dist, a version and an arch
DistKey(dist, version, arch) == dist \o <<"-">> \o version \o <<"-">> \o arch

\* outside the program: the name of the build resolves
DistWorld(key) ==
    [NoWorld EXCEPT !.dns = (key \o <<".", "d">>) :> <<"1", "0", ".", "0", ".", "0", ".", "7">>]

\* builds of platform/lab/key for every key the spec document provides
DistInit ==
    /\ pc = "make_build"
    /\ \E dist \in DistNames, versions \in DistVersions, platform \in {s_vmware, s_kvm},
          defines \in {Null, <<"k", "=", "1">>} :
          \E v \in 1..Len(versions) :
             BuildCase(defines, s_vmware, 0, TRUE,
                       platform \o <<"/">> \o s_lab \o <<"/">>
                           \o DistKey(dist, versions[v], s_x86_64),
                       [location |-> EmptyMap, spec |-> DistProvides(dist, versions)],
                       DistWorld(DistKey(dist, versions[v], s_x86_64)))
    /\ ret = <<>>

SpecDist == DistInit /\ [][BuildNext]_vars

\* make_build has returned the build of a key of the catalog
BuiltFromCatalog ==
    /\ pc \in {"built", "generated", "written", "packed"}
    /\ arg.index_entry # Null
    /\ IsMap(EntryGet(arg.index_entry, s_provides, Null))

\* the dist, version and arch of the catalog entry the spec key selected
CatalogProvides == EntryGet(arg.index_entry, s_provides, Null).v

\* C28: when no document and no user override sets defs dist, version or arch, after
\* make_build defs dist, version and arch are those of the catalog entry selected by the
\* spec key, for every dist name, also one that contains "-"
C28_DefsFromCatalogEntry ==
    BuiltFromCatalog =>
        /\ self.defs[s_dist] = CatalogProvides[s_dist]
        /\ self.defs[s_version] = CatalogProvides[s_version]
        /\ self.defs[s_arch] = CatalogProvides[s_arch]

\* the part of C28 the code keeps: a dist name without "-"
C28_PlainDistFromCatalogEntry ==
    (BuiltFromCatalog /\ Len(Split(CatalogProvides[s_dist].v, "-")) = 1) =>
        /\ self.defs[s_dist] = CatalogProvides[s_dist]
        /\ self.defs[s_version] = CatalogProvides[s_version]
        /\ self.defs[s_arch] = CatalogProvides[s_arch]

----------------------------------------------------------------------------
(* Lists of strings resolved against defs of strings, under SpecSub *)

\* a list whose elements are all strings
IsListOfStr(x) == IsList(x) /\ \A i \in 1..Len(x.v) : IsStr(x.v[i])

\* do_sub has resolved a list of strings against defs whose values are strings or
\* lists of strings
ResolvedListOfStr ==
    /\ pc = "resolved"
    /\ IsListOfStr(arg)
    /\ \A k \in DOMAIN self.defs : IsStr(self.defs[k]) \/ IsListOfStr(self.defs[k])
    /\ ~IsRaise(ret[1])

\* C29: resolving a list whose elements are strings, against defs whose values are
\* strings or lists of strings, yields a flat list of strings: no element of the result
\* is a list, also when the defs value a [>token<] element names is a string
C29_ResolvedListIsFlat ==
    ResolvedListOfStr => IsListOfStr(ret[1])

\* C29 for the lists whose elements that hold a marker are exactly one [>token<]
\* naming a string of defs
C29_ListMarkerOfStrIsFlat ==
    (/\ ResolvedListOfStr
     /\ \A i \in 1..Len(arg.v) :
           \/ /\ IsExactListMarker(arg.v[i])
              /\ ExactListToken(arg.v[i]) \in DOMAIN self.defs
              /\ IsStr(self.defs[ExactListToken(arg.v[i])])
           \/ NoMarkerLeft(arg.v[i]))
    => IsListOfStr(ret[1])

\* the part of C29 the code keeps: a [>token<] element naming a list of defs, or
\* nothing of defs, among elements without markers
C29_ListMarkerOfListIsFlat ==
    (/\ ResolvedListOfStr
     /\ \A i \in 1..Len(arg.v) :
           \/ /\ IsExactListMarker(arg.v[i])
              /\ ExactListToken(arg.v[i]) \in DOMAIN self.defs
                    => IsList(self.defs[ExactListToken(arg.v[i])])
           \/ NoMarkerLeft(arg.v[i]))
    => IsListOfStr(ret[1])

====
